---- MODULE Spec2Model ----
(***************************************************************************)
(* Model of the pixel transforms of pnp-toolkit:                           *)
(*   extendSides / extendCorners  (src/transform/refill.ts)                *)
(*   addBleed                     (src/transform/pipeline.ts)              *)
(*   setPixel / getPixel / hasColor (src/unnamed/part_000, transform/util) *)
(*                                                                         *)
(* An ImageData is a record [width, height, data]; data is the pixel array *)
(* in row-major order, one entry <<r, g, b, a>> per pixel (the byte array  *)
(* of the code holds PIXEL_SIZE = 4 consecutive bytes per entry, and every *)
(* access of the code addresses one whole entry).  Entry i of the code is  *)
(* data[i + 1] here, as TLA+ sequences start at 1.                         *)
(***************************************************************************)
EXTENDS Integers, Sequences, FiniteSets, TLC

VARIABLES
    source,     \* the ImageData object handed to the transform (extendSides mutates it)
    control,    \* the control ImageData object
    padding,    \* the padding handed to addBleed
    bottom,     \* the bottomHalf flag handed to refillCorner
    renameConfig, \* the RenameConfig handed to getRenames
    snapshot,   \* history: the content of source before the first call
    returned,   \* history: the outcome of each call made so far, in order
    files,      \* the file system: what every path holds
    args,       \* the arguments of the call to make, of functions of plain values
    status      \* "ready", "returned", "exited" (process.exit) or "threw" (exception)

vars == <<source, control, padding, bottom, renameConfig, snapshot, returned, files, args, status>>

-----------------------------------------------------------------------------
(* Bounds of the model *)

\* extendSides: largest width and height of the source and of the control
\* image, and the largest number of control pixels that are not transparent.
MaxW == 2
MaxH == 2
MaxMarks == 2

\* addBleed: largest width and height of the source, and largest padding.
MaxBleedW == 3
MaxBleedH == 3
MaxPad == 3

\* extendCorners: largest width and height of the source and of the control
\* image.
MaxCornerW == 4
MaxCornerH == 4

\* refillCorner: largest width, height and number of pixels of a quadrant,
\* and the largest number of control pixels that are not transparent.
MaxQuadW == 4
MaxQuadH == 4
MaxQuadCells == 8
MaxQuadMarks == 4

-----------------------------------------------------------------------------
(* Pixels *)

\* A read past the end of a Uint8ClampedArray yields undefined in every channel.
UNDEF == -1
UNDEFINED == <<UNDEF, UNDEF, UNDEF, UNDEF>>

TRANSPARENT == <<0, 0, 0, 0>>
RED     == <<255, 0, 0, 255>>
GREEN   == <<0, 255, 0, 255>>
BLUE    == <<0, 0, 255, 255>>
BLACK   == <<0, 0, 0, 255>>
YELLOW  == <<255, 255, 0, 255>>
CYAN    == <<0, 255, 255, 255>>

\* A Uint8ClampedArray stores undefined (NaN) as 0.
Store(p) == [c \in 1..4 |-> IF p[c] = UNDEF THEN 0 ELSE p[c]]

Image(w, h, data) == [width |-> w, height |-> h, data |-> data]

\* The arguments of a call that has none.
NoArgs == <<>>

\* The value of files while no file is in play.
NoFiles == <<>>

\* The value of renameConfig while no RenameConfig is in play.
NoConfig == [extractionOrder |-> <<>>, startIndex |-> 0]

\* Mutant: row and column exchanged in the index.
getPixel_Transposed(pixels, width, x, y) ==
    LET index == y + x * width
    IN  IF index < Len(pixels) THEN pixels[index + 1] ELSE UNDEFINED

getPixel(pixels, width, x, y) ==
    LET index == x + y * width
    IN  IF index < Len(pixels) THEN pixels[index + 1] ELSE UNDEFINED

\* The entry of image.data that setPixel(image, x, y, ...) addresses.
PixelIndex(image, x, y) == x + y * image.width

setPixel(image, x, y, p) ==
    LET index == PixelIndex(image, x, y)
    IN  IF index < Len(image.data)
        THEN [image EXCEPT !.data[index + 1] = Store(p)]
        ELSE image

-----------------------------------------------------------------------------
(* extendSides *)

\* Mutant: green is tested before red.
Direction_GreenFirst(c) ==
    IF c[2] = 255 THEN "up"
    ELSE IF c[1] = 255 THEN "left"
    ELSE IF c[3] = 255 THEN "right"
    ELSE "down"

\* The direction a control pixel selects, first match first.
Direction(c) ==
    IF c[1] = 255 THEN "left"
    ELSE IF c[2] = 255 THEN "up"
    ELSE IF c[3] = 255 THEN "right"
    ELSE "down"

\* Mutant: the left loop starts at column 1.
FillCoords_LeftFromOne(dir, x, y, width, height) ==
    CASE dir = "left"  -> {<<currentX, y>> : currentX \in 1..(x - 1)}
      [] dir = "up"    -> {<<x, currentY>> : currentY \in 0..(y - 1)}
      [] dir = "right" -> {<<currentX, y>> : currentX \in (x + 1)..(width - 1)}
      [] dir = "down"  -> {<<x, currentY>> : currentY \in (y + 1)..(height - 1)}

\* Mutant: the down loop passes its counter as column and as row.
FillCoords_DownDiagonal(dir, x, y, width, height) ==
    CASE dir = "left"  -> {<<currentX, y>> : currentX \in 0..(x - 1)}
      [] dir = "up"    -> {<<x, currentY>> : currentY \in 0..(y - 1)}
      [] dir = "right" -> {<<currentX, y>> : currentX \in (x + 1)..(width - 1)}
      [] dir = "down"  -> {<<currentY, currentY>> : currentY \in (y + 1)..(height - 1)}

\* The coordinates the fill loop of a direction passes to setPixel.
FillCoords(dir, x, y, width, height) ==
    CASE dir = "left"  -> {<<currentX, y>> : currentX \in 0..(x - 1)}
      [] dir = "up"    -> {<<x, currentY>> : currentY \in 0..(y - 1)}
      [] dir = "right" -> {<<currentX, y>> : currentX \in (x + 1)..(width - 1)}
      [] dir = "down"  -> {<<x, currentY>> : currentY \in (y + 1)..(height - 1)}

\* The entries of image.data that setPixel changes for these coordinates
\* (a write past the end of the array is dropped).
Written(image, coords) ==
    {PixelIndex(image, c[1], c[2]) : c \in coords} \cap (0..(Len(image.data) - 1))

\* setPixel over all coordinates of a fill loop; the colour was read before
\* the loop and every entry gets the same value, so the order does not matter.
FillAll(image, coords, color) ==
    LET hit == Written(image, coords)
        px  == Store(color)
    IN  [image EXCEPT !.data =
            [i \in 1..Len(@) |-> IF (i - 1) \in hit THEN px ELSE @[i]]]

\* One iteration of the inner loop of extendSides, at (x, y).
\* st = [image, trace]; width and height are those of the source.
SidesStep(st, ctl, x, y) ==
    LET width  == st.image.width
        height == st.image.height
        c      == getPixel(ctl.data, width, x, y)
    IN  IF c[4] = 0 THEN st
        ELSE
            LET originalColor == getPixel(st.image.data, width, x, y)
                dir    == Direction(c)
                coords == FillCoords(dir, x, y, width, height)
            IN  [image |-> FillAll(st.image, coords, originalColor),
                 trace |-> Append(st.trace,
                              [x |-> x, y |-> y, read |-> c, dir |-> dir,
                               color |-> originalColor,
                               anchor |-> PixelIndex(st.image, x, y),
                               writes |-> Written(st.image, coords)])]

\* The loops of extendSides: x outer, y inner; step k is (k \div ch, k % ch).
RECURSIVE SidesLoop(_, _, _)
SidesLoop(st, ctl, k) ==
    IF k >= ctl.width * ctl.height THEN st
    ELSE SidesLoop(SidesStep(st, ctl, k \div ctl.height, k % ctl.height), ctl, k + 1)

extendSides(src, ctl) == SidesLoop([image |-> src, trace |-> <<>>], ctl, 0)

-----------------------------------------------------------------------------
(* Inputs *)

\* extendSides never looks at the value of a source pixel, it only copies
\* it: a source whose pixels are pairwise different shows every copy made.
SrcPixel(i) == <<10 + i, 20 + i, 30 + i, 255>>

TaggedImage(w, h) == Image(w, h, [i \in 1..(w * h) |-> SrcPixel(i)])

\* The non-transparent values a control pixel of extendSides takes.
SideMarks == {RED, GREEN, BLUE, BLACK, YELLOW, CYAN}

\* The places of the pixels of an n-pixel control image that are not fully
\* transparent: at most MaxMarks of them.
MarkPlaces(n) == { at \in SUBSET (1..n) : Cardinality(at) <= MaxMarks }

\* The control image of size w x h with pixel m[i] at the places i in at.
MarkedImage(w, h, at, m) ==
    Image(w, h, [i \in 1..(w * h) |-> IF i \in at THEN m[i] ELSE TRANSPARENT])

\* The sizes of a control image used with a w x h source: the same size, one
\* column and/or one row less, or one column or one row more.
ControlSizes(w, h) ==
    { sz \in {<<w, h>>, <<w - 1, h>>, <<w, h - 1>>, <<w - 1, h - 1>>,
              <<w + 1, h>>, <<w, h + 1>>} :
        sz[1] \in 1..MaxW /\ sz[2] \in 1..MaxH }

-----------------------------------------------------------------------------
(* extendSides: specification *)

InitSides ==
    /\ \E w \in 1..MaxW, h \in 1..MaxH :
          /\ source = TaggedImage(w, h)
          /\ \E sz \in ControlSizes(w, h) :
             \E at \in MarkPlaces(sz[1] * sz[2]) :
             \E m \in [at -> SideMarks] :
                control = MarkedImage(sz[1], sz[2], at, m)
    /\ padding = 0
    /\ bottom = FALSE
    /\ renameConfig = NoConfig
    /\ snapshot = source
    /\ files = NoFiles
    /\ args = NoArgs
    /\ returned = <<>>
    /\ status = "ready"

\* extendSides(source, control), called on the buffer the previous call
\* returned (which is the source object itself); two calls in a row.
CallExtendSides ==
    /\ Len(returned) < 2
    /\ returned' = Append(returned, extendSides(source, control))
    /\ source' = returned'[Len(returned')].image
    /\ status' = "returned"
    /\ UNCHANGED <<control, padding, bottom, renameConfig, snapshot, files, args>>

NextSides == CallExtendSides

SpecSides == InitSides /\ [][NextSides]_vars

\* What a call that returns no ImageData leaves in its outcome.
NoImage == Image(0, 0, <<>>)

-----------------------------------------------------------------------------
(* addBleed *)

\* createCanvas(w, h): every pixel transparent black.
Canvas(w, h) == Image(w, h, [i \in 1..(w * h) |-> TRANSPARENT])

\* Mutant: the bottom copy comes before the top copy.
COPIES_BottomBeforeTop ==
    << [scaleX |-> -1, scaleY |->  1, shiftX |-> 0, shiftY |-> 0],
       [scaleX |-> -1, scaleY |->  1, shiftX |-> 2, shiftY |-> 0],
       [scaleX |->  1, scaleY |-> -1, shiftX |-> 0, shiftY |-> 2],
       [scaleX |->  1, scaleY |-> -1, shiftX |-> 0, shiftY |-> 0],
       [scaleX |-> -1, scaleY |-> -1, shiftX |-> 0, shiftY |-> 0],
       [scaleX |-> -1, scaleY |-> -1, shiftX |-> 2, shiftY |-> 0],
       [scaleX |-> -1, scaleY |-> -1, shiftX |-> 0, shiftY |-> 2],
       [scaleX |-> -1, scaleY |-> -1, shiftX |-> 2, shiftY |-> 2] >>

\* Mutant: the bottom right copy is shifted like the top right one.
COPIES_NoBottomRight ==
    << [scaleX |-> -1, scaleY |->  1, shiftX |-> 0, shiftY |-> 0],
       [scaleX |-> -1, scaleY |->  1, shiftX |-> 2, shiftY |-> 0],
       [scaleX |->  1, scaleY |-> -1, shiftX |-> 0, shiftY |-> 0],
       [scaleX |->  1, scaleY |-> -1, shiftX |-> 0, shiftY |-> 2],
       [scaleX |-> -1, scaleY |-> -1, shiftX |-> 0, shiftY |-> 0],
       [scaleX |-> -1, scaleY |-> -1, shiftX |-> 2, shiftY |-> 0],
       [scaleX |-> -1, scaleY |-> -1, shiftX |-> 0, shiftY |-> 2],
       [scaleX |-> -1, scaleY |-> -1, shiftX |-> 2, shiftY |-> 0] >>

\* Left, Right, Top, Bottom, Top left, Top right, Bottom left, Bottom right.
COPIES ==
    << [scaleX |-> -1, scaleY |->  1, shiftX |-> 0, shiftY |-> 0],
       [scaleX |-> -1, scaleY |->  1, shiftX |-> 2, shiftY |-> 0],
       [scaleX |->  1, scaleY |-> -1, shiftX |-> 0, shiftY |-> 0],
       [scaleX |->  1, scaleY |-> -1, shiftX |-> 0, shiftY |-> 2],
       [scaleX |-> -1, scaleY |-> -1, shiftX |-> 0, shiftY |-> 0],
       [scaleX |-> -1, scaleY |-> -1, shiftX |-> 2, shiftY |-> 0],
       [scaleX |-> -1, scaleY |-> -1, shiftX |-> 0, shiftY |-> 2],
       [scaleX |-> -1, scaleY |-> -1, shiftX |-> 2, shiftY |-> 2] >>

\* Mutant: the original is drawn at the canvas origin.
OriginalAt_Origin(pad) == [scaleX |-> 1, scaleY |-> 1, translateX |-> 0, translateY |-> 0]

\* ctx.drawImage(sourceCanvas, padding, padding) under the identity transform.
OriginalAt(pad) == [scaleX |-> 1, scaleY |-> 1, translateX |-> pad, translateY |-> pad]

\* Mutant: every copy is translated by the padding only.
Transform_NoShift(copy, width, height, pad) ==
    [scaleX |-> copy.scaleX, scaleY |-> copy.scaleY,
     translateX |-> pad, translateY |-> pad]

\* ctx.translate(shiftX * width + padding, shiftY * height + padding);
\* ctx.scale(scaleX, scaleY)
Transform(copy, width, height, pad) ==
    [scaleX |-> copy.scaleX, scaleY |-> copy.scaleY,
     translateX |-> copy.shiftX * width + pad,
     translateY |-> copy.shiftY * height + pad]

\* The nine paints of addBleed, in the order of the code.
Paints(width, height, pad) ==
    <<OriginalAt(pad)>> \o [k \in 1..Len(COPIES) |-> Transform(COPIES[k], width, height, pad)]

\* Mutant: a mirrored copy is reflected about the pixel t, not the edge t.
Preimage_AboutPixel(d, t, s) == IF s = 1 THEN d - t ELSE t - d

\* The image column (row) that lands on canvas column (row) d when the image
\* is drawn at 0 under translate(t) and scale(s), s being 1 or -1: the unit
\* square [i, i + 1] maps to [t + i, t + i + 1] or to [t - i - 1, t - i].
Preimage(d, t, s) == IF s = 1 THEN d - t ELSE t - 1 - d

\* Source-over compositing of one pixel, for the alpha values 0 and 255
\* that a canvas stores exactly.
SourceOver(src, dst) == IF src[4] = 255 THEN src ELSE dst

\* ctx.drawImage(img, 0, 0) on canvas cv under transform t; pixels that land
\* outside the canvas are clipped.
\* st = [image, trace]: the canvas and the regions painted so far.
DrawImage(st, img, t) ==
    LET cv == st.image
        Covers(X, Y) ==
            /\ Preimage(X, t.translateX, t.scaleX) \in 0..(img.width - 1)
            /\ Preimage(Y, t.translateY, t.scaleY) \in 0..(img.height - 1)
        From(X, Y) ==
            img.data[Preimage(X, t.translateX, t.scaleX)
                     + Preimage(Y, t.translateY, t.scaleY) * img.width + 1]
        covered ==
            {i \in 0..(Len(cv.data) - 1) : Covers(i % cv.width, i \div cv.width)}
    IN  [image |-> [cv EXCEPT !.data =
                        [i \in 1..Len(@) |->
                            IF (i - 1) \in covered
                            THEN SourceOver(From((i - 1) % cv.width, (i - 1) \div cv.width), @[i])
                            ELSE @[i]]],
         trace |-> Append(st.trace,
                      [covered |-> covered,
                       drawn |-> [i \in covered |->
                                     From(i % cv.width, i \div cv.width)]])]

RECURSIVE PaintAll(_, _, _, _)
PaintAll(st, img, paints, k) ==
    IF k > Len(paints) THEN st
    ELSE PaintAll(DrawImage(st, img, paints[k]), img, paints, k + 1)

\* sourceCtx.putImageData(source, 0, 0) makes the source canvas hold the
\* source's pixels; ctx.getImageData(0, 0, paddedWidth, paddedHeight) returns
\* the pixels of the padded canvas.
addBleed(src, pad) ==
    LET width  == src.width
        height == src.height
        paddedWidth  == width + 2 * pad
        paddedHeight == height + 2 * pad
    IN  PaintAll([image |-> Canvas(paddedWidth, paddedHeight), trace |-> <<>>],
                 src, Paints(width, height, pad), 1)

-----------------------------------------------------------------------------
(* addBleed: specification *)

\* A tagged source, with at most one pixel made fully transparent.
BleedSource(w, h, clear) ==
    Image(w, h, [i \in 1..(w * h) |-> IF i = clear THEN TRANSPARENT ELSE SrcPixel(i)])

InitBleed ==
    /\ \E w \in 1..MaxBleedW, h \in 1..MaxBleedH :
       \E clear \in 0..(w * h) :
          source = BleedSource(w, h, clear)
    /\ padding \in 0..MaxPad
    /\ bottom = FALSE
    /\ renameConfig = NoConfig
    /\ control = NoImage
    /\ snapshot = source
    /\ files = NoFiles
    /\ args = NoArgs
    /\ returned = <<>>
    /\ status = "ready"

CallAddBleed ==
    /\ returned = <<>>
    /\ returned' = <<addBleed(source, padding)>>
    /\ status' = "returned"
    /\ UNCHANGED <<source, control, padding, bottom, renameConfig, snapshot, files, args>>

NextBleed == CallAddBleed

SpecBleed == InitBleed /\ [][NextBleed]_vars

-----------------------------------------------------------------------------
(* extendCorners *)

CENTER_COLOR == <<0, 255, 0, 255>>
EDGE_COLOR   == <<255, 0, 255, 255>>
TARGET_COLOR == <<0, 0, 0, 255>>

\* Mutant: the blue channel is not compared.
hasColor_IgnoreBlue(pixels, width, x, y, color) ==
    LET actual == getPixel(pixels, width, x, y)
    IN  /\ actual[1] = color[1]
        /\ actual[2] = color[2]
        /\ actual[4] = color[4]

hasColor(pixels, width, x, y, color) ==
    LET actual == getPixel(pixels, width, x, y)
    IN  /\ actual[1] = color[1]
        /\ actual[2] = color[2]
        /\ actual[3] = color[3]
        /\ actual[4] = color[4]

\* Angles are counted in millionths of a half turn: Math.PI is HALF_TURN.
HALF_TURN == 1000000
TWO_PI == HALF_TURN * 2

Abs(n) == IF n >= 0 THEN n ELSE -n

\* Math.atan2(y, x) for 0 <= y <= x, to the nearest millionth of a half turn,
\* for the slopes y/x that pixel offsets of up to four pixels have.
OctantAngle(y, x) ==
    CASE y = 0         -> 0
      [] y = x         -> 250000
      [] 2 * y = x     -> 147584
      [] 3 * y = x     -> 102416
      [] 3 * y = 2 * x -> 187167
      [] 4 * y = x     -> 77979
      [] 4 * y = 3 * x -> 204833

\* Math.atan2(y, x) for integers y and x (y = 0 is +0, so atan2(0, x) is pi
\* for x < 0 and 0 otherwise).
atan2(y, x) ==
    LET ay == Abs(y)
        ax == Abs(x)
        acute == IF ay <= ax THEN OctantAngle(ay, ax)
                 ELSE (HALF_TURN \div 2) - OctantAngle(ax, ay)
        upper == IF x >= 0 THEN acute ELSE HALF_TURN - acute
    IN  IF y >= 0 THEN upper ELSE -upper

\* Mutant: in the bottom half a raw angle of 0 is wrapped too.
adjustedAngle_ZeroWrapped(bottomHalf, rawAngle) ==
    IF bottomHalf
    THEN IF rawAngle < 0 THEN rawAngle ELSE rawAngle - TWO_PI
    ELSE IF rawAngle >= 0 THEN rawAngle ELSE rawAngle + TWO_PI

adjustedAngle(bottomHalf, rawAngle) ==
    IF bottomHalf
    THEN IF rawAngle <= 0 THEN rawAngle ELSE rawAngle - TWO_PI
    ELSE IF rawAngle >= 0 THEN rawAngle ELSE rawAngle + TWO_PI

\* The store of the number n / d (n >= 0, d > 0) into a Uint8ClampedArray:
\* the nearest integer, a tie going to the even one, at most 255.
ToUint8Clamp(n, d) ==
    LET q == n \div d
        r == n % d
        rounded == IF 2 * r < d THEN q
                   ELSE IF 2 * r > d THEN q + 1
                   ELSE IF q % 2 = 0 THEN q ELSE q + 1
    IN  IF rounded > 255 THEN 255 ELSE rounded

\* A sample is [angle, color, at]; in lerpSamples a sample is named by its
\* place in the sorted samples, which is the identity `===` compares, and 0
\* names undefined.  The outcome is the colour setPixel stores, or the
\* TypeError of reading a property of undefined.  A distance of 0 between two
\* different samples makes both influences 0 / 0 = NaN.
lerpSamples(samples, before, after, angle) ==
    IF before = after
    THEN IF before = 0
         THEN [threw |-> TRUE, color |-> UNDEFINED]
         ELSE [threw |-> FALSE, color |-> samples[before].color]
    ELSE LET b == samples[before]
             a == samples[after]
             distance == a.angle - b.angle
         IN  IF distance = 0
             THEN [threw |-> FALSE, color |-> UNDEFINED]
             ELSE [threw |-> FALSE,
                   color |-> [c \in 1..4 |->
                       ToUint8Clamp((a.angle - angle) * b.color[c]
                                    + (angle - b.angle) * a.color[c], distance)]]

\* The entries of an image (counted from 0) that hold the given colour.
Matching(image, color) ==
    { i \in 0..(image.width * image.height - 1) :
        hasColor(image.data, image.width, i % image.width, i \div image.width, color) }

\* The members of a set of entries in scan order (row-major).
InOrder(S) ==
    [k \in 1..Cardinality(S) |->
        CHOOSE i \in S : Cardinality({j \in S : j < i}) = k - 1]

\* centerX and centerY both undefined.
NoCenter == <<UNDEF, UNDEF>>

\* Mutant: a quadrant without a centre takes its first pixel as the centre.
findCenter_DefaultOrigin(controlPixels) ==
    LET found == Matching(controlPixels, CENTER_COLOR)
    IN  IF found = {} THEN <<0, 0>>
        ELSE LET i == CHOOSE i \in found : \A j \in found : j <= i
             IN  <<i % controlPixels.width, i \div controlPixels.width>>

\* Mutant: the scan stops at the first match.
findCenter_FirstMatch(controlPixels) ==
    LET found == Matching(controlPixels, CENTER_COLOR)
    IN  IF found = {} THEN NoCenter
        ELSE LET i == CHOOSE i \in found : \A j \in found : i <= j
             IN  <<i % controlPixels.width, i \div controlPixels.width>>

\* <<centerX, centerY>> after the scan: the last match in scan order.
findCenter(controlPixels) ==
    LET found == Matching(controlPixels, CENTER_COLOR)
    IN  IF found = {} THEN NoCenter
        ELSE LET i == CHOOSE i \in found : \A j \in found : j <= i
             IN  <<i % controlPixels.width, i \div controlPixels.width>>

\* lodash sortBy: ascending by angle, equal angles keep their order.
sortBy(unsorted) ==
    LET n == Len(unsorted)
        rank(k) == 1 + Cardinality({ j \in 1..n :
                        \/ unsorted[j].angle < unsorted[k].angle
                        \/ unsorted[j].angle = unsorted[k].angle /\ j < k })
    IN  [r \in 1..n |-> unsorted[CHOOSE k \in 1..n : rank(k) = r]]

\* Mutant: below every sample the search wraps around to the last sample.
sampleBefore_WrapAround(samples, angle) ==
    LET found == { i \in 1..Len(samples) : samples[i].angle <= angle }
    IN  IF found # {} THEN CHOOSE i \in found : \A j \in found : j <= i
        ELSE Len(samples)

\* samples.findLast(s => s.angle <= angle) ?? samples[0]
sampleBefore(samples, angle) ==
    LET found == { i \in 1..Len(samples) : samples[i].angle <= angle }
    IN  IF found # {} THEN CHOOSE i \in found : \A j \in found : j <= i
        ELSE IF Len(samples) > 0 THEN 1 ELSE 0

\* samples.find(s => s.angle >= angle) ?? samples[samples.length - 1]
sampleAfter(samples, angle) ==
    LET found == { i \in 1..Len(samples) : samples[i].angle >= angle }
    IN  IF found # {} THEN CHOOSE i \in found : \A j \in found : i <= j
        ELSE Len(samples)

\* adjustedAngle(bottomHalf, Math.atan2(centerY - y, x - centerX)) for the
\* pixel at entry i of a quadrant of the given width.
angleAt(center, width, bottomHalf, i) ==
    adjustedAngle(bottomHalf,
                  atan2(center[2] - (i \div width), (i % width) - center[1]))

\* Mutant: the colour of a sample is read from the control quadrant.
collectSamples_FromControl(sourcePixels, width, center, bottomHalf, edges) ==
    [k \in 1..Len(edges) |->
        [angle |-> adjustedAngle(bottomHalf,
                       atan2(center[2] - (edges[k] \div width),
                             (edges[k] % width) - center[1])),
         color |-> EDGE_COLOR,
         at    |-> edges[k]]]

\* unsortedSamples: one sample per EDGE pixel, in scan order.
collectSamples(sourcePixels, width, center, bottomHalf, edges) ==
    [k \in 1..Len(edges) |->
        [angle |-> angleAt(center, width, bottomHalf, edges[k]),
         color |-> getPixel(sourcePixels.data, width,
                            edges[k] % width, edges[k] \div width),
         at    |-> edges[k]]]

\* What one round of the refill loop does for the TARGET pixel at entry at:
\* its angle, the two samples chosen and the colour stored (or the TypeError).
FillRecord(at, angle, before, after, lerp) ==
    [at |-> at, angle |-> angle, before |-> before, after |-> after,
     threw |-> lerp.threw, color |-> lerp.color]

FillBetween(samples, at, angle, before, after) ==
    FillRecord(at, angle, before, after, lerpSamples(samples, before, after, angle))

FillAt(samples, at, angle) ==
    FillBetween(samples, at, angle,
                sampleBefore(samples, angle), sampleAfter(samples, angle))

\* The rounds of the refill loop, one per TARGET pixel, in scan order.  The
\* samples took their colours before any pixel is stored, so no round
\* depends on another.
collectFills(samples, width, center, bottomHalf, targets) ==
    [k \in 1..Len(targets) |->
        FillAt(samples, targets[k], angleAt(center, width, bottomHalf, targets[k]))]

\* The data of result after the stores of the refill loop.
FilledData(data, fills) ==
    [i \in 1..Len(data) |->
        LET ks == { k \in 1..Len(fills) : fills[k].at = i - 1 }
        IN  IF ks = {} THEN data[i]
            ELSE Store(fills[CHOOSE k \in ks : TRUE].color)]

\* The outcome of refillCorner: its status ("ok", "exited" for
\* process.exit(1), "threw" for a TypeError), the ImageData it returns, and
\* what it found on the way: the centre, the sorted samples and the rounds
\* of the refill loop.
RefillOutcome(sourcePixels, width, height, center, samples, fills) ==
    IF \E k \in 1..Len(fills) : fills[k].threw
    THEN [status |-> "threw", image |-> NoImage, center |-> center,
          samples |-> samples, fills |-> fills]
    ELSE [status |-> "ok",
          image |-> Image(width, height, FilledData(sourcePixels.data, fills)),
          center |-> center, samples |-> samples, fills |-> fills]

\* refillCorner from the sorted samples on.
RefillFrom(sourcePixels, controlPixels, bottomHalf, center, samples) ==
    RefillOutcome(sourcePixels, controlPixels.width, controlPixels.height,
                  center, samples,
                  collectFills(samples, controlPixels.width, center, bottomHalf,
                               InOrder(Matching(controlPixels, TARGET_COLOR))))

\* refillCorner from the end of the centre scan on.
RefillAround(sourcePixels, controlPixels, bottomHalf, center) ==
    IF center = NoCenter
    THEN [status |-> "exited", image |-> NoImage, center |-> center,
          samples |-> <<>>, fills |-> <<>>]
    ELSE RefillFrom(sourcePixels, controlPixels, bottomHalf, center,
                    sortBy(collectSamples(sourcePixels, controlPixels.width,
                                          center, bottomHalf,
                                          InOrder(Matching(controlPixels, EDGE_COLOR)))))

refillCorner(sourcePixels, controlPixels, bottomHalf) ==
    RefillAround(sourcePixels, controlPixels, bottomHalf, findCenter(controlPixels))

\* A canvas keeps its pixels premultiplied by alpha: a pixel of alpha 255
\* is kept as it is, one of alpha 0 loses its colour.
CanvasStore(p) == IF p[4] = 0 THEN TRANSPARENT ELSE p

\* ctx.getImageData(sx, sy, sw, sh): pixels outside the canvas are
\* transparent black.
getImageData(canvas, sx, sy, sw, sh) ==
    Image(sw, sh,
          [i \in 1..(sw * sh) |->
              LET x == sx + ((i - 1) % sw)
                  y == sy + ((i - 1) \div sw)
              IN  IF x < canvas.width /\ y < canvas.height
                  THEN canvas.data[x + y * canvas.width + 1]
                  ELSE TRANSPARENT])

\* ctx.putImageData(image, dx, dy): the pixels of the image replace those of
\* the canvas; what falls outside the canvas is dropped.
putImageData(canvas, image, dx, dy) ==
    [canvas EXCEPT !.data =
        [i \in 1..Len(canvas.data) |->
            LET x == ((i - 1) % canvas.width) - dx
                y == ((i - 1) \div canvas.width) - dy
            IN  IF x \in 0..(image.width - 1) /\ y \in 0..(image.height - 1)
                THEN CanvasStore(image.data[x + y * image.width + 1])
                ELSE canvas.data[i]]]

\* Math.ceil(n / 2)
CeilHalf(n) == (n + 1) \div 2

\* Mutant: the cutoffs are rounded down.
segments_FloorCut(width, height) ==
    LET cutoffX == width \div 2
        cutoffY == height \div 2
    IN  << [bottomHalf |-> FALSE, fromX |-> 0,       toX |-> cutoffX, fromY |-> 0,       toY |-> cutoffY],
           [bottomHalf |-> FALSE, fromX |-> cutoffX, toX |-> width,   fromY |-> 0,       toY |-> cutoffY],
           [bottomHalf |-> TRUE,  fromX |-> 0,       toX |-> cutoffX, fromY |-> cutoffY, toY |-> height],
           [bottomHalf |-> TRUE,  fromX |-> cutoffX, toX |-> width,   fromY |-> cutoffY, toY |-> height] >>

segments(width, height) ==
    LET cutoffX == CeilHalf(width)
        cutoffY == CeilHalf(height)
    IN  << [bottomHalf |-> FALSE, fromX |-> 0,       toX |-> cutoffX, fromY |-> 0,       toY |-> cutoffY],
           [bottomHalf |-> FALSE, fromX |-> cutoffX, toX |-> width,   fromY |-> 0,       toY |-> cutoffY],
           [bottomHalf |-> TRUE,  fromX |-> 0,       toX |-> cutoffX, fromY |-> cutoffY, toY |-> height],
           [bottomHalf |-> TRUE,  fromX |-> cutoffX, toX |-> width,   fromY |-> cutoffY, toY |-> height] >>

\* The end of one round of the loop over the segments: the result of
\* refillCorner is put back at the segment's offset.
PutBack(st, fillData, seg) ==
    [canvas |-> IF fillData.status = "ok"
                THEN putImageData(st.canvas, fillData.image, seg.fromX, seg.fromY)
                ELSE st.canvas,
     status |-> fillData.status,
     trace  |-> Append(st.trace, fillData)]

\* One round of the loop over the segments.  st is [canvas, status, trace];
\* once process.exit or an exception has ended the call no later round runs.
\* getImageData throws an IndexSizeError for a width or height of 0.
CornersStep(st, controlCanvas, seg, sw, sh) ==
    IF st.status # "ok" THEN st
    ELSE IF sw = 0 \/ sh = 0 THEN [st EXCEPT !.status = "threw"]
    ELSE PutBack(st,
                 refillCorner(getImageData(st.canvas, seg.fromX, seg.fromY, sw, sh),
                              getImageData(controlCanvas, seg.fromX, seg.fromY, sw, sh),
                              seg.bottomHalf),
                 seg)

RECURSIVE CornersLoop(_, _, _, _)
CornersLoop(st, controlCanvas, segs, k) ==
    IF k > Len(segs) THEN st
    ELSE CornersLoop(CornersStep(st, controlCanvas, segs[k],
                                 segs[k].toX - segs[k].fromX,
                                 segs[k].toY - segs[k].fromY),
                     controlCanvas, segs, k + 1)

\* The outcome of extendCorners once the loop has ended: status "returned"
\* with the ImageData returned, or "exited" / "threw" with no ImageData
\* (NoImage); trace holds what refillCorner did for each segment it was
\* called on.
CornersOutcome(end, width, height) ==
    IF end.status = "ok"
    THEN [status |-> "returned",
          image |-> getImageData(end.canvas, 0, 0, width, height),
          trace |-> end.trace]
    ELSE [status |-> end.status, image |-> NoImage, trace |-> end.trace]

extendCorners(src, ctl) ==
    CornersOutcome(
        CornersLoop([canvas |-> putImageData(Canvas(src.width, src.height), src, 0, 0),
                     status |-> "ok", trace |-> <<>>],
                    putImageData(Canvas(ctl.width, ctl.height), ctl, 0, 0),
                    segments(src.width, src.height), 1),
        src.width, src.height)

-----------------------------------------------------------------------------
(* extendCorners: specification *)

\* The entries of a w x h image (counted from 0) that lie in segment k.
SegmentCells(w, h, k) ==
    LET seg == segments(w, h)[k]
    IN  { x + y * w : x \in seg.fromX..(seg.toX - 1), y \in seg.fromY..(seg.toY - 1) }

\* Per segment, where its CENTER pixel is: nowhere (UNDEF), or at the last
\* entry of the segment.
CenterChoices(w, h) ==
    { [k \in 1..4 |->
          IF k \in Q
          THEN CHOOSE i \in SegmentCells(w, h, k) : \A j \in SegmentCells(w, h, k) : j <= i
          ELSE UNDEF] :
      Q \in SUBSET { k \in 1..4 : SegmentCells(w, h, k) # {} } }

\* An opaque colour that is none of the three markers.
UNMARKED == <<0, 0, 1, 255>>

\* A cw x ch control image that holds, at the entries of a w x h image, the
\* chosen centres, at most one EDGE pixel (at e) and at most one pixel of
\* colour tc (at t); every other pixel is transparent.
CornerControl(w, h, cw, ch, c, e, t, tc) ==
    Image(cw, ch, [i \in 1..(cw * ch) |->
        LET x == (i - 1) % cw
            y == (i - 1) \div cw
            j == x + y * w
        IN  IF x >= w \/ y >= h THEN TRANSPARENT
            ELSE IF j = t THEN tc
            ELSE IF j = e THEN EDGE_COLOR
            ELSE IF \E k \in 1..4 : c[k] = j THEN CENTER_COLOR
            ELSE TRANSPARENT])

\* The control image has the size of the source, or one column and one row
\* more.
InitCorners ==
    /\ \E w \in 1..MaxCornerW, h \in 1..MaxCornerH :
          /\ source = TaggedImage(w, h)
          /\ \E c \in CenterChoices(w, h) :
             \E e \in UNDEF..(w * h - 1), t \in UNDEF..(w * h - 1) :
             \E tc \in {TARGET_COLOR, UNMARKED}, more \in {0, 1} :
                control = CornerControl(w, h, w + more, h + more, c, e, t, tc)
    /\ padding = 0
    /\ bottom = FALSE
    /\ renameConfig = NoConfig
    /\ snapshot = source
    /\ files = NoFiles
    /\ args = NoArgs
    /\ returned = <<>>
    /\ status = "ready"

\* extendCorners(source, control), called once.
CallExtendCorners ==
    /\ returned = <<>>
    /\ returned' = <<extendCorners(source, control)>>
    /\ status' = returned'[1].status
    /\ UNCHANGED <<source, control, padding, bottom, renameConfig, snapshot, files, args>>

NextCorners == CallExtendCorners

SpecCorners == InitCorners /\ [][NextCorners]_vars

-----------------------------------------------------------------------------
(* refillCorner: specification *)

\* The source pixels of a quadrant: all different ("tagged"), or BLUE in the
\* two leftmost columns and RED in the others ("banded").
QuadSource(w, h, paint) ==
    IF paint = "tagged" THEN TaggedImage(w, h)
    ELSE Image(w, h, [i \in 1..(w * h) |-> IF (i - 1) % w < 2 THEN BLUE ELSE RED])

CornerMarks == {CENTER_COLOR, EDGE_COLOR, TARGET_COLOR}

QuadMarkPlaces(n) == { at \in SUBSET (1..n) : Cardinality(at) <= MaxQuadMarks }

\* The places of a 4 x 4 quadrant on the row or the column of (2, 2), other
\* than (2, 2) itself.
CrossPlaces == { i \in 1..16 : i # 11 /\ ((i - 1) % 4 = 2 \/ (i - 1) \div 4 = 2) }

\* A 4 x 4 control quadrant with its CENTER at (2, 2) and at most four EDGE
\* or TARGET pixels, all on the row or the column of the centre.
CrossControl(at, m) ==
    Image(4, 4, [i \in 1..16 |-> IF i = 11 THEN CENTER_COLOR
                                 ELSE IF i \in at THEN m[i] ELSE TRANSPARENT])

InitCorner ==
    /\ \E paint \in {"tagged", "banded"} :
          \/ \E w \in 1..MaxQuadW, h \in 1..MaxQuadH :
                /\ w * h <= MaxQuadCells
                /\ source = QuadSource(w, h, paint)
                /\ \E at \in QuadMarkPlaces(w * h) :
                   \E m \in [at -> CornerMarks] :
                      control = MarkedImage(w, h, at, m)
          \/ /\ source = QuadSource(4, 4, paint)
             /\ \E at \in { a \in SUBSET CrossPlaces : Cardinality(a) <= 4 } :
                \E m \in [at -> {EDGE_COLOR, TARGET_COLOR}] :
                   control = CrossControl(at, m)
    /\ bottom \in BOOLEAN
    /\ padding = 0
    /\ renameConfig = NoConfig
    /\ snapshot = source
    /\ files = NoFiles
    /\ args = NoArgs
    /\ returned = <<>>
    /\ status = "ready"

\* refillCorner(source, control, bottom), called once.  The ImageData it
\* returns is built on the data array of source, so what it stores shows in
\* source too.
CallRefillCorner ==
    /\ returned = <<>>
    /\ returned' = <<refillCorner(source, control, bottom)>>
    /\ status' = IF returned'[1].status = "ok" THEN "returned" ELSE returned'[1].status
    /\ source' = IF returned'[1].status = "ok"
                 THEN [source EXCEPT !.data = returned'[1].image.data]
                 ELSE source
    /\ UNCHANGED <<control, padding, bottom, renameConfig, snapshot, files, args>>

NextCorner == CallRefillCorner

SpecCorner == InitCorner /\ [][NextCorner]_vars

-----------------------------------------------------------------------------
(* getRenames *)

MaxPages == 2
MaxEntries == 2
MaxStart == 1

\* Strings are sequences of characters.  parseInt of a one-character
\* string: the digit's value, or NaN (UNDEF) for any other character.
parseInt(ref) ==
    CASE ref = "0" -> 0 [] ref = "1" -> 1 [] ref = "2" -> 2 [] ref = "3" -> 3
      [] ref = "4" -> 4 [] ref = "5" -> 5 [] ref = "6" -> 6 [] ref = "7" -> 7
      [] ref = "8" -> 8 [] ref = "9" -> 9 [] OTHER -> UNDEF

DigitChar(d) ==
    CASE d = 0 -> "0" [] d = 1 -> "1" [] d = 2 -> "2" [] d = 3 -> "3"
      [] d = 4 -> "4" [] d = 5 -> "5" [] d = 6 -> "6" [] d = 7 -> "7"
      [] d = 8 -> "8" [] d = 9 -> "9"

\* padNum of a number below 1000: three digits, zero-padded.
padNum(n) == <<DigitChar(n \div 100), DigitChar((n \div 10) % 10), DigitChar(n % 10)>>

Front == "Front"
Back  == "Back"

\* The resolver defaultName(config) returns, applied to (ref, slotNumber,
\* side).
defaultName(config, ref, slotNumber, side) ==
    LET prefix   == IF side = Front THEN "F" ELSE "B"
        slotName == IF side = Back /\ ref = "."
                    THEN <<"c", "a", "r", "d", "b", "a", "c", "k">>
                    ELSE <<ref>>
        suffix   == IF config.shiftNumbers /\ parseInt(ref) # UNDEF
                    THEN <<prefix, "-">> \o padNum(slotNumber + 1)
                    ELSE slotName
    IN  config.outPrefix \o <<"-">> \o suffix

\* order.back of a page that has no back side.
NoBack == <<"undefined">>

\* Mutant: a skipped entry does not take up a source index.
SkipEntry_KeepIndex(st) == st

\* The '-' branch of the innermost loop, with the increment that ends the
\* round.  st is [renames, currentIndex, pageStartOffset, largestSlotOnPage].
SkipEntry(st) == [st EXCEPT !.currentIndex = @ + 1]

\* The other branch, with the increment that ends the round; fullName is
\* the name configuration the resolver was made from.  With targetSlot NaN
\* the comparison is false and absoluteSlot is NaN.
PushEntry(st, fullName, side, targetSlotStr, targetSlot) ==
    [st EXCEPT
        !.largestSlotOnPage = IF targetSlot # UNDEF /\ targetSlot > @ THEN targetSlot ELSE @,
        !.renames = Append(@, [fromIndex |-> st.currentIndex,
                               toName |-> defaultName(fullName, targetSlotStr,
                                                      IF targetSlot = UNDEF THEN UNDEF
                                                      ELSE st.pageStartOffset + (targetSlot - 1),
                                                      side)]),
        !.currentIndex = @ + 1]

\* One round of the loop over the entries of one side.
EntryStep(st, fullName, side, targetSlotStr) ==
    IF targetSlotStr = "-" THEN SkipEntry(st)
    ELSE PushEntry(st, fullName, side, targetSlotStr, parseInt(targetSlotStr))

RECURSIVE SideLoop(_, _, _, _, _)
SideLoop(st, fullName, side, order, k) ==
    IF k > Len(order) THEN st
    ELSE SideLoop(EntryStep(st, fullName, side, order[k]), fullName, side, order, k + 1)

\* Mutant: the offset stays where it was.
EndPage_NoShift(st) == st

\* The end of one round of the loop over the pages.
EndPage(st) ==
    [st EXCEPT !.pageStartOffset = @ + st.largestSlotOnPage]

\* One round of the loop over the pages: the front, then the back if the
\* page has one.
PageStep(st, fullName, order) ==
    EndPage(IF order.back # NoBack
            THEN SideLoop(SideLoop([st EXCEPT !.largestSlotOnPage = 0],
                                   fullName, Front, order.front, 1),
                          fullName, Back, order.back, 1)
            ELSE SideLoop([st EXCEPT !.largestSlotOnPage = 0],
                          fullName, Front, order.front, 1))

RECURSIVE PageLoop(_, _, _, _)
PageLoop(st, fullName, extractionOrder, pageIndex) ==
    IF pageIndex > Len(extractionOrder) THEN st
    ELSE PageLoop(PageStep(st, fullName, extractionOrder[pageIndex]),
                  fullName, extractionOrder, pageIndex + 1)

getRenames(config) ==
    PageLoop([renames |-> <<>>, currentIndex |-> config.startIndex,
              pageStartOffset |-> 0, largestSlotOnPage |-> 0],
             config.fullName, config.extractionOrder, 1).renames

-----------------------------------------------------------------------------
(* getRenames: specification *)

\* The characters of an extraction order: a skipped image and two slot
\* numbers (letter references are in the configurations of README.md).
SlotRefs == {"-", "1", "2"}

Orders == UNION { [1..n -> SlotRefs] : n \in 0..MaxEntries }

OrderPages == { [front |-> f, back |-> b] : f \in Orders, b \in Orders \cup {NoBack} }

OUT_PREFIX == <<"a", "w", "s", "m">>

\* The first configuration of README.md: six cards, startIndex 2.
AwesomeGame ==
    [extractionOrder |-> << [front |-> <<"1", "4", "2", "5", "3", "6">>,
                             back  |-> <<"2", "5", "1", "4", "3", "6">>] >>,
     startIndex |-> 2,
     fullName |-> [outPrefix |-> OUT_PREFIX, shiftNumbers |-> TRUE]]

\* The configurations of README.md as parseExtractionOrder hands them on:
\* the first, the two pages with a shared card back, and the single-sided
\* page with an ignored image.
ReadmeConfigs ==
    { AwesomeGame,
      [extractionOrder |-> << [front |-> <<"1", "4", "2", "5", "3", "6">>,
                               back  |-> <<"B">>],
                              [front |-> <<"1", "4", "2", "5", "3", "6">>,
                               back  |-> <<"6", "5", "4">>] >>,
       startIndex |-> 0,
       fullName |-> [outPrefix |-> <<"s", "m", "p", "l">>, shiftNumbers |-> TRUE]],
      [extractionOrder |-> << [front |-> <<"A", "B", "-", "D", "C">>, back |-> NoBack] >>,
       startIndex |-> 0,
       fullName |-> [outPrefix |-> <<"c", "m", "b", "t">>, shiftNumbers |-> TRUE]] }

\* Single-sided pages whose slot numbers include 0.
ZeroPages ==
    { [front |-> f, back |-> NoBack] :
        f \in UNION { [1..n -> {"0", "1", "2"}] : n \in 0..MaxEntries } }

InitRenames ==
    /\ \/ \E n \in 0..MaxPages :
          \E order \in [1..n -> OrderPages], start \in 0..MaxStart, shift \in BOOLEAN :
             renameConfig = [extractionOrder |-> order, startIndex |-> start,
                             fullName |-> [outPrefix |-> OUT_PREFIX, shiftNumbers |-> shift]]
       \/ \E n \in 0..MaxPages :
          \E order \in [1..n -> ZeroPages] :
             renameConfig = [extractionOrder |-> order, startIndex |-> 0,
                             fullName |-> [outPrefix |-> OUT_PREFIX, shiftNumbers |-> TRUE]]
       \/ renameConfig \in ReadmeConfigs
    /\ source = NoImage
    /\ control = NoImage
    /\ padding = 0
    /\ bottom = FALSE
    /\ snapshot = NoImage
    /\ files = NoFiles
    /\ args = NoArgs
    /\ returned = <<>>
    /\ status = "ready"

\* getRenames(config), called once.
CallGetRenames ==
    /\ returned = <<>>
    /\ returned' = <<getRenames(renameConfig)>>
    /\ status' = "returned"
    /\ UNCHANGED <<source, control, padding, bottom, renameConfig, snapshot, files, args>>

NextRenames == CallGetRenames

SpecRenames == InitRenames /\ [][NextRenames]_vars

-----------------------------------------------------------------------------
(* config and verifyConfig *)

MaxItems == 2

\* /^[A-Z]$/i
IsLetter(ref) ==
    ref \in {"A", "B", "C", "D", "E", "F", "G", "H", "I", "J", "K", "L", "M",
             "N", "O", "P", "Q", "R", "S", "T", "U", "V", "W", "X", "Y", "Z",
             "a", "b", "c", "d", "e", "f", "g", "h", "i", "j", "k", "l", "m",
             "n", "o", "p", "q", "r", "s", "t", "u", "v", "w", "x", "y", "z"}

\* new Set(numbersOnly(list))
numbersOnly(list) ==
    { parseInt(list[i]) : i \in { j \in 1..Len(list) : parseInt(list[j]) # UNDEF } }

\* new Set(lettersOnly(list))
lettersOnly(list) == { list[i] : i \in { j \in 1..Len(list) : IsLetter(list[j]) } }

\* allLayoutItems.map(_ => _.front) and .map(_ => _.back); the '.' entries
\* that the filter removes are neither numbers nor letters.
lFronts(layoutPage) == [i \in 1..Len(layoutPage) |-> layoutPage[i].front]
lBacks(layoutPage)  == [i \in 1..Len(layoutPage) |-> layoutPage[i].back]

\* extractionPage.back ?? []
xBacks(extractionPage) == IF extractionPage.back = NoBack THEN <<>> ELSE extractionPage.back

\* A failed assertion ends the checks; failed names the assertion.
Fail(st, what, pageIndex) ==
    [st EXCEPT !.status = "threw", !.failed = <<what, pageIndex>>]

\* Mutant: the letters extracted are not remembered.
CheckLetters_Forgetful(st, layoutLetters, extractLetters, what, pageIndex) ==
    IF st.status # "ok" THEN st
    ELSE IF layoutLetters \ st.seenLetters # extractLetters THEN Fail(st, what, pageIndex)
    ELSE st

\* One of the two blocks that check a side for new letters to extract.
\* st is [seenLetters, status, failed].
CheckLetters(st, layoutLetters, extractLetters, what, pageIndex) ==
    IF st.status # "ok" THEN st
    ELSE IF layoutLetters \ st.seenLetters # extractLetters THEN Fail(st, what, pageIndex)
    ELSE [st EXCEPT !.seenLetters = @ \cup (layoutLetters \ @)]

\* One of the two assertions on the numbers of a side.
CheckNumbers(st, layoutNumbers, extractNumbers, what, pageIndex) ==
    IF st.status # "ok" THEN st
    ELSE IF layoutNumbers # extractNumbers THEN Fail(st, what, pageIndex)
    ELSE st

\* One round of the loop of verifyConfig over the pages.
VerifyPage(st, layoutPage, extractionPage, pageIndex) ==
    CheckLetters(
        CheckLetters(
            CheckNumbers(
                CheckNumbers(st, numbersOnly(lFronts(layoutPage)),
                             numbersOnly(extractionPage.front), "numbers front", pageIndex),
                numbersOnly(lBacks(layoutPage)),
                numbersOnly(xBacks(extractionPage)), "numbers back", pageIndex),
            lettersOnly(lFronts(layoutPage)),
            lettersOnly(extractionPage.front), "letters front", pageIndex),
        lettersOnly(lBacks(layoutPage)),
        lettersOnly(xBacks(extractionPage)), "letters back", pageIndex)

RECURSIVE VerifyLoop(_, _, _, _)
VerifyLoop(st, layout, extractionOrder, pageIndex) ==
    IF pageIndex > Len(layout) \/ st.status # "ok" THEN st
    ELSE VerifyLoop(VerifyPage(st, layout[pageIndex], extractionOrder[pageIndex], pageIndex),
                    layout, extractionOrder, pageIndex + 1)

\* verifyConfig returns (status "ok") or throws an AssertionError.
verifyConfig(layout, extractionOrder) ==
    IF Len(layout) # Len(extractionOrder)
    THEN [seenLetters |-> {}, status |-> "threw", failed |-> <<"pages", 0>>]
    ELSE VerifyLoop([seenLetters |-> {}, status |-> "ok", failed |-> <<>>],
                    layout, extractionOrder, 1)

\* The names of the cards of one page; pageSize is the number of slots of
\* the first page.
PageCards(layoutPage, pageIndex, pageSize, fullName) ==
    [i \in 1..Len(layoutPage) |->
        [front |-> defaultName(fullName, layoutPage[i].front,
                               (pageIndex - 1) * pageSize + (i - 1), Front),
         back  |-> defaultName(fullName, layoutPage[i].back,
                               (pageIndex - 1) * pageSize + (i - 1), Back)]]

RECURSIVE CardsUpTo(_, _, _, _)
CardsUpTo(layout, pageIndex, pageSize, fullName) ==
    IF pageIndex = 0 THEN <<>>
    ELSE CardsUpTo(layout, pageIndex - 1, pageSize, fullName)
         \o PageCards(layout[pageIndex], pageIndex, pageSize, fullName)

cardNames(layout, fullName) == CardsUpTo(layout, Len(layout), Len(layout[1]), fullName)

\* config from the verification on: the renames, then the card names, for
\* which layout[0] must exist.
ConfigAfter(init, verified) ==
    IF verified.status = "threw"
    THEN [status |-> "threw", error |-> "AssertionError", failed |-> verified.failed,
          renames |-> <<>>, cards |-> <<>>]
    ELSE IF Len(init.layout) = 0
    THEN [status |-> "threw", error |-> "TypeError", failed |-> <<>>,
          renames |-> <<>>, cards |-> <<>>]
    ELSE [status |-> "returned", error |-> "", failed |-> <<>>,
          renames |-> getRenames(init),
          cards |-> cardNames(init.layout, init.fullName)]

\* config(init), for a layout and an extraction order already parsed.
config(init) == ConfigAfter(init, verifyConfig(init.layout, init.extractionOrder))

-----------------------------------------------------------------------------
(* config: specification *)

\* The slots of a parsed layout: parseLayout keeps no slot whose front is
\* '.', parseLayoutOneSided gives every slot the back '.'.
LayoutItems ==
    { [front |-> f, back |-> b] : f \in {"1", "2", "A"}, b \in {"1", "A", "B", "."} }
    \cup { [front |-> ".", back |-> "."] }

RichLayoutPages == UNION { [1..n -> LayoutItems] : n \in 0..MaxItems }

RichOrderPages ==
    { [front |-> f, back |-> b] :
        f \in UNION { [1..n -> {"-", "1", "2", "A"}] : n \in 0..MaxEntries },
        b \in UNION { [1..n -> {"1", "A", "B"}] : n \in 0..MaxEntries } \cup {NoBack} }

\* Pages of at most one slot, for configurations of several pages.
SmallLayoutPages ==
    {<<>>} \cup { <<[front |-> f, back |-> b]>> : f \in {"1", "A"}, b \in {"A", "B", "."} }

SmallOrderPages ==
    { [front |-> f, back |-> b] :
        f \in {<<>>, <<"1">>, <<"A">>},
        b \in {NoBack, <<>>, <<"A">>, <<"B">>} }

Slots(fronts, backs) == [i \in 1..Len(fronts) |-> [front |-> fronts[i], back |-> backs[i]]]

\* The three configurations of README.md, parsed.
ReadmeInits ==
    { [layout |-> << Slots(<<"1", "2", "3", "4", "5", "6">>,
                           <<"1", "2", "3", "4", "5", "6">>) >>,
       extractionOrder |-> AwesomeGame.extractionOrder,
       startIndex |-> 2,
       fullName |-> AwesomeGame.fullName],
      [layout |-> << Slots(<<"1", "2", "3", "4", "5", "6">>,
                           <<"B", "B", "B", "B", "B", "B">>),
                     Slots(<<"1", "2", "3", "4", "5", "6">>,
                           <<"B", "B", "B", "4", "5", "6">>) >>,
       extractionOrder |-> << [front |-> <<"1", "4", "2", "5", "3", "6">>,
                               back  |-> <<"B">>],
                              [front |-> <<"1", "4", "2", "5", "3", "6">>,
                               back  |-> <<"6", "5", "4">>] >>,
       startIndex |-> 0,
       fullName |-> [outPrefix |-> <<"s", "m", "p", "l">>, shiftNumbers |-> TRUE]],
      [layout |-> << Slots(<<"A", "A", "A", "B", "B", "C", ".", "D", "D">>,
                           <<".", ".", ".", ".", ".", ".", ".", ".", ".">>) >>,
       extractionOrder |-> << [front |-> <<"A", "B", "-", "D", "C">>, back |-> NoBack] >>,
       startIndex |-> 0,
       fullName |-> [outPrefix |-> <<"c", "m", "b", "t">>, shiftNumbers |-> TRUE]] }

InitConfig ==
    /\ \/ \E l \in RichLayoutPages, o \in RichOrderPages :
             renameConfig = [layout |-> <<l>>, extractionOrder |-> <<o>>, startIndex |-> 0,
                             fullName |-> [outPrefix |-> OUT_PREFIX, shiftNumbers |-> TRUE]]
       \/ \E n \in 0..MaxPages, m \in 0..MaxPages :
          \E l \in [1..n -> SmallLayoutPages], o \in [1..m -> SmallOrderPages] :
             renameConfig = [layout |-> l, extractionOrder |-> o, startIndex |-> 0,
                             fullName |-> [outPrefix |-> OUT_PREFIX, shiftNumbers |-> TRUE]]
       \/ renameConfig \in ReadmeInits
    /\ source = NoImage
    /\ control = NoImage
    /\ padding = 0
    /\ bottom = FALSE
    /\ snapshot = NoImage
    /\ files = NoFiles
    /\ args = NoArgs
    /\ returned = <<>>
    /\ status = "ready"

\* config(init), called once.
CallConfig ==
    /\ returned = <<>>
    /\ returned' = <<config(renameConfig)>>
    /\ status' = returned'[1].status
    /\ UNCHANGED <<source, control, padding, bottom, renameConfig, snapshot, files, args>>

NextConfig == CallConfig

SpecConfig == InitConfig /\ [][NextConfig]_vars

-----------------------------------------------------------------------------
(* Files: copyNewerSync, preprocessNoop, preprocessCombat *)

MaxCalls == 3

MaxPixels == 2

INPUT_DIR == "input"
RENAMED_DIR == "renamed"
OUTPUT_DIR == "output"
OUTPUT_EXT == "png"

\* A path is [dir, base, ext]; what a path holds is [pixels, bleed]: the
\* picture and the width of the bleed added to it.  ABSENT: no such file.
Path(dir, base, ext) == [dir |-> dir, base |-> base, ext |-> ext]

ABSENT == [pixels |-> 0, bleed |-> 0]

\* The padding preprocessCombat hands to addBleed.
COMBAT_BLEED == 36

\* existsSync(path)
existsSync(fs, path) == fs[path] # ABSENT

\* path.join(OUTPUT_DIR, base + OUTPUT_EXT)
getOutPath(inPath) == Path(OUTPUT_DIR, inPath.base, OUTPUT_EXT)

\* What a call leaves behind: the file system before and after it, and
\* whether it threw.
FileCall(op, from, to, fs, after, threw) ==
    [op |-> op, from |-> from, to |-> to, before |-> fs, after |-> after, threw |-> threw]

\* Mutant: the target is copied over whether it exists or not.
copyNewerSync_Always(op, fs, src, target) ==
    IF fs[src] = ABSENT THEN FileCall(op, src, target, fs, fs, TRUE)
    ELSE FileCall(op, src, target, fs, [fs EXCEPT ![target] = fs[src]], FALSE)

\* copyNewerSync(source, target); copyFileSync throws when there is no
\* source file.  op names the function the call was made for.
copyNewerSync(op, fs, src, target) ==
    IF existsSync(fs, target) THEN FileCall(op, src, target, fs, fs, FALSE)
    ELSE IF fs[src] = ABSENT THEN FileCall(op, src, target, fs, fs, TRUE)
    ELSE FileCall(op, src, target, fs, [fs EXCEPT ![target] = fs[src]], FALSE)

preprocessNoop(fs, inPath) == copyNewerSync("preprocessNoop", fs, inPath, getOutPath(inPath))

\* addBleed(extendSides(sourceImage, control), 36) of a loaded picture.
Processed(image) == [pixels |-> image.pixels, bleed |-> image.bleed + COMBAT_BLEED]

\* The processor preprocessCombat(control) returns, run to its end:
\* loadImageData rejects when there is no input file.
preprocessCombat(fs, inPath) ==
    IF existsSync(fs, getOutPath(inPath))
    THEN FileCall("preprocessCombat", inPath, getOutPath(inPath), fs, fs, FALSE)
    ELSE IF fs[inPath] = ABSENT
    THEN FileCall("preprocessCombat", inPath, getOutPath(inPath), fs, fs, TRUE)
    ELSE FileCall("preprocessCombat", inPath, getOutPath(inPath), fs,
                  [fs EXCEPT ![getOutPath(inPath)] = Processed(fs[inPath])], FALSE)

-----------------------------------------------------------------------------
(* Files: specification *)

\* An extracted image, its two renamed copies (of the same base name, so
\* that both have the same output path) and the output file.
ExtractedPath == Path(INPUT_DIR, "a", "jpg")
RenamedPaths == {Path(RENAMED_DIR, "a", "jpg"), Path(RENAMED_DIR, "a", "png")}
OutputPath == Path(OUTPUT_DIR, "a", OUTPUT_EXT)

Paths == {ExtractedPath, OutputPath} \cup RenamedPaths

Pictures == { [pixels |-> n, bleed |-> 0] : n \in 1..MaxPixels }

InitFiles ==
    /\ \E fs \in [Paths -> Pictures \cup {ABSENT}] :
          files = fs \/ files = [fs EXCEPT ![OutputPath] = Processed(@)]
    /\ args = NoArgs
    /\ source = NoImage
    /\ control = NoImage
    /\ padding = 0
    /\ bottom = FALSE
    /\ renameConfig = NoConfig
    /\ snapshot = NoImage
    /\ returned = <<>>
    /\ status = "ready"

\* A call ends: the file system is as the call left it.
EndCall(call) ==
    /\ Len(returned) < MaxCalls
    /\ returned' = Append(returned, call)
    /\ files' = call.after
    /\ status' = IF call.threw THEN "threw" ELSE "returned"
    /\ UNCHANGED <<source, control, padding, bottom, renameConfig, snapshot, args>>

\* copyNewerSync as renameExtractedImages and copyDirs call it: from the
\* input or the renamed directory to the renamed or the output directory.
CallCopyNewerSync ==
    \E src \in {ExtractedPath} \cup RenamedPaths, target \in RenamedPaths \cup {OutputPath} :
        EndCall(copyNewerSync("copyNewerSync", files, src, target))

CallPreprocessNoop ==
    \E inPath \in RenamedPaths : EndCall(preprocessNoop(files, inPath))

CallPreprocessCombat ==
    \E inPath \in RenamedPaths : EndCall(preprocessCombat(files, inPath))

NextFiles == CallCopyNewerSync \/ CallPreprocessNoop \/ CallPreprocessCombat

SpecFiles == InitFiles /\ [][NextFiles]_vars

-----------------------------------------------------------------------------
(* Regions: regionFromBounds, regionsBetweenSharedLines *)

MaxLines == 3

MaxCoord == 2

regionFromBounds(xFrom, xTo, yFrom, yTo) ==
    [x |-> xFrom, y |-> yFrom, w |-> xTo - xFrom, h |-> yTo - yFrom]

\* The inner loop of regionsBetweenSharedLines, from v on (indexes from 1).
RECURSIVE SharedRow(_, _, _, _, _)
SharedRow(result, horizontal, vertical, h, v) ==
    IF ~(v < Len(vertical)) THEN result
    ELSE SharedRow(Append(result, regionFromBounds(vertical[v], vertical[v + 1],
                                                   horizontal[h], horizontal[h + 1])),
                   horizontal, vertical, h, v + 1)

\* The outer loop, from h on.
RECURSIVE SharedRows(_, _, _, _)
SharedRows(result, horizontal, vertical, h) ==
    IF ~(h < Len(horizontal)) THEN result
    ELSE SharedRows(SharedRow(result, horizontal, vertical, h, 1), horizontal, vertical, h + 1)

\* regionsBetweenSharedLines(horizontal, vertical): what it throws, or the
\* regions it returns.
regionsBetweenSharedLines(horizontal, vertical) ==
    IF Len(horizontal) <= 2 \/ Len(vertical) <= 2
    THEN [threw |-> "RangeError", result |-> <<>>]
    ELSE [threw |-> "", result |-> SharedRows(<<>>, horizontal, vertical, 1)]

-----------------------------------------------------------------------------
(* Regions: specification *)

Lines == UNION { [1..n -> 0..MaxCoord] : n \in 0..MaxLines }

InitRegions ==
    /\ \E horizontal \in Lines, vertical \in Lines :
          args = [horizontal |-> horizontal, vertical |-> vertical]
    /\ source = NoImage
    /\ control = NoImage
    /\ padding = 0
    /\ bottom = FALSE
    /\ renameConfig = NoConfig
    /\ snapshot = NoImage
    /\ files = NoFiles
    /\ returned = <<>>
    /\ status = "ready"

\* regionsBetweenSharedLines(horizontal, vertical), called once.
CallRegionsBetweenSharedLines ==
    /\ returned = <<>>
    /\ returned' = <<regionsBetweenSharedLines(args.horizontal, args.vertical)>>
    /\ status' = IF returned'[1].threw # "" THEN "threw" ELSE "returned"
    /\ UNCHANGED <<source, control, padding, bottom, renameConfig, snapshot, files, args>>

NextRegions == CallRegionsBetweenSharedLines

SpecRegions == InitRegions /\ [][NextRegions]_vars

-----------------------------------------------------------------------------
(* Autofill: validateAutofillData, deduplicate, mergeAutofillData *)

MaxInputs == 2

MaxQuantity == 2

MaxSlot == 1

MaxSideEntries == 2

\* Names every object literal answers to with 'in', through Object.prototype.
ObjectPrototypeKeys ==
    {"constructor", "toString", "toLocaleString", "valueOf", "hasOwnProperty",
     "isPrototypeOf", "propertyIsEnumerable", "__proto__"}

AutofillEntry(name, ext, slots) == [name |-> name, ext |-> ext, slots |-> slots]

\* The slots of the entries of one side, as one set.
SlotsOf(list) == UNION { {list[k].slots[n] : n \in 1..Len(list[k].slots)} : k \in 1..Len(list) }

\* validateAutofillData(data): TRUE when it throws.  range(quantity) is
\* empty for a quantity of 0.
validateAutofillData(data) ==
    \/ (0..(data.quantity - 1)) \ SlotsOf(data.fronts) # {}
    \/ (0..(data.quantity - 1)) \ SlotsOf(data.backs) # {}

\* The place in result of the entry existingNames holds for name.
Original(result, name) == CHOOSE k \in 1..Len(result) : result[k].name = name

\* 'name in existingNames': an own key, set for every entry pushed to
\* result, or a key of Object.prototype.
InExistingNames(result, name) ==
    \/ \E k \in 1..Len(result) : result[k].name = name
    \/ name \in ObjectPrototypeKeys

\* One round of the loop of deduplicate; st is [result, threw].  The value
\* read for an inherited key has no slots, and push on undefined throws.
DeduplicateStep(st, current) ==
    IF ~InExistingNames(st.result, current.name)
    THEN [st EXCEPT !.result = Append(@, current)]
    ELSE IF \E k \in 1..Len(st.result) : st.result[k].name = current.name
    THEN [st EXCEPT !.result[Original(st.result, current.name)].slots = @ \o current.slots]
    ELSE [st EXCEPT !.threw = "TypeError"]

RECURSIVE DeduplicateLoop(_, _, _)
DeduplicateLoop(st, list, index) ==
    IF index > Len(list) \/ st.threw # "" THEN st
    ELSE DeduplicateLoop(DeduplicateStep(st, list[index]), list, index + 1)

deduplicate(list) == DeduplicateLoop([result |-> <<>>, threw |-> ""], list, 1)

\* Mutant: the slots are copied as they are.
offsetSlots_Unshifted(offset, entry) == entry

offsetSlots(offset, entry) ==
    AutofillEntry(entry.name, entry.ext,
                  [n \in 1..Len(entry.slots) |-> offset + entry.slots[n]])

\* list.map(c => offsetSlots(slotOffset, c))
OffsetAll(slotOffset, list) == [k \in 1..Len(list) |-> offsetSlots(slotOffset, list[k])]

\* The loop over the configs; st is [quantity, fronts, backs].
RECURSIVE MergeLoop(_, _, _)
MergeLoop(st, configs, i) ==
    IF i > Len(configs) THEN st
    ELSE MergeLoop([quantity |-> st.quantity + configs[i].quantity,
                    fronts |-> st.fronts \o OffsetAll(st.quantity, configs[i].fronts),
                    backs |-> st.backs \o OffsetAll(st.quantity, configs[i].backs)],
                   configs, i + 1)

\* What mergeAutofillData returns from the merged lists: deduplicate(fronts)
\* is evaluated before deduplicate(backs).
Merged(quantity, fronts, backs) ==
    IF fronts.threw # "" \/ backs.threw # ""
    THEN [threw |-> "TypeError", quantity |-> 0, fronts |-> <<>>, backs |-> <<>>]
    ELSE [threw |-> "", quantity |-> quantity, fronts |-> fronts.result, backs |-> backs.result]

MergedOf(st) == Merged(st.quantity, deduplicate(st.fronts), deduplicate(st.backs))

mergeAutofillData(configs) ==
    MergedOf(MergeLoop([quantity |-> 0, fronts |-> <<>>, backs |-> <<>>], configs, 1))

-----------------------------------------------------------------------------
(* Autofill: specification *)

EntryNames == {"a", "b"}

\* The slots of an entry, in ascending order.
SlotLists ==
    { s \in UNION { [1..n -> 0..MaxSlot] : n \in 0..(MaxSlot + 1) } :
        \A n \in 1..(Len(s) - 1) : s[n] < s[n + 1] }

AutofillEntries == { AutofillEntry(name, "", slots) : name \in EntryNames, slots \in SlotLists }

EntryLists == UNION { [1..n -> AutofillEntries] : n \in 0..MaxSideEntries }

\* One card back for all the slots of a configuration.
CardBack(quantity) == <<AutofillEntry("back", "", [n \in 1..quantity |-> n - 1])>>

\* The configurations handed over: any fronts, and for backs the same
\* entries or the one card back (both sides go through the same code).
SomeDatas ==
    { [quantity |-> q, fronts |-> f, backs |-> f] : q \in 0..MaxQuantity, f \in EntryLists }
    \cup { [quantity |-> q, fronts |-> f, backs |-> CardBack(q)] :
              q \in 0..MaxQuantity, f \in EntryLists }

\* A card whose file is called like a key of Object.prototype.
InheritedDatas ==
    { [quantity |-> 1, fronts |-> <<AutofillEntry(name, "", <<0>>)>>, backs |-> CardBack(1)] :
        name \in {"constructor", "a"} }
    \cup { [quantity |-> 1, fronts |-> CardBack(1), backs |-> <<AutofillEntry("valueOf", "", <<0>>)>>] }

InitAutofill ==
    /\ \/ \E n \in 0..MaxInputs : args \in [1..n -> SomeDatas]
       \/ \E n \in 1..MaxInputs : args \in [1..n -> InheritedDatas]
    /\ source = NoImage
    /\ control = NoImage
    /\ padding = 0
    /\ bottom = FALSE
    /\ renameConfig = NoConfig
    /\ snapshot = NoImage
    /\ files = NoFiles
    /\ returned = <<>>
    /\ status = "ready"

\* mergeAutofillData(configs), called once.
CallMergeAutofillData ==
    /\ returned = <<>>
    /\ returned' = <<mergeAutofillData(args)>>
    /\ status' = IF returned'[1].threw # "" THEN "threw" ELSE "returned"
    /\ UNCHANGED <<source, control, padding, bottom, renameConfig, snapshot, files, args>>

NextAutofill == CallMergeAutofillData

SpecAutofill == InitAutofill /\ [][NextAutofill]_vars

-----------------------------------------------------------------------------
(* The transforms and the buffers they are given *)

\* What a call leaves behind: the buffer it returned ("source" for the
\* object it was given as source, "new" for an object the call made, "none"
\* when it returned nothing) with its pixels, and the pixels the two
\* objects it was given hold after the call.
Effect(op, buffer, image, src, ctl) ==
    [op |-> op, buffer |-> buffer, image |-> image, source |-> src, control |-> ctl]

\* Mutant: extendSides works on a copy and returns the copy.
SidesEffect_OnCopy(src, ctl, out) ==
    Effect("extendSides", "new", out.image, src, ctl)

\* extendSides: setPixel(source, ...) writes into the source object, the
\* control object is only read, and the source object is returned.
SidesEffect(src, ctl, out) ==
    Effect("extendSides", "source", out.image, out.image, ctl)

\* addBleed: putImageData copies the source to a canvas, every paint goes
\* to the padded canvas, and getImageData returns a new ImageData.
BleedEffect(src, ctl, out) ==
    Effect("addBleed", "new", out.image, src, ctl)

\* extendCorners: putImageData copies source and control to canvases,
\* refillCorner writes into the ImageData that getImageData made, and the
\* last getImageData returns a new ImageData (nothing after process.exit or
\* an exception).
CornersEffect(src, ctl, out) ==
    Effect("extendCorners", IF out.status = "returned" THEN "new" ELSE "none",
           out.image, src, ctl)

InitTransforms == InitSides \/ InitBleed \/ InitCorners

\* A call leaves in source and control what the two objects hold after it.
Leave(effect) ==
    /\ returned = <<>>
    /\ returned' = <<effect>>
    /\ source' = effect.source
    /\ control' = effect.control
    /\ status' = IF effect.buffer = "none" THEN "ended" ELSE "returned"
    /\ UNCHANGED <<padding, bottom, renameConfig, snapshot, files, args>>

TransformSides == Leave(SidesEffect(source, control, extendSides(source, control)))

TransformBleed == Leave(BleedEffect(source, control, addBleed(source, padding)))

TransformCorners == Leave(CornersEffect(source, control, extendCorners(source, control)))

NextTransforms == TransformSides \/ TransformBleed \/ TransformCorners

SpecTransforms == InitTransforms /\ [][NextTransforms]_vars

-----------------------------------------------------------------------------
(* The first call made: what it returned and what it did, step by step. *)

First == returned[1]
Called == Len(returned) >= 1

-----------------------------------------------------------------------------
(* addBleed: properties *)

Out == returned[1].image
OutAt(X, Y) == Out.data[X + Y * Out.width + 1]
SrcAt(i, j) == source.data[i + j * source.width + 1]
Min(a, b) == IF a <= b THEN a ELSE b

\* C6: the output is (w + 2p) x (h + 2p) and holds the source at offset
\* (p, p).
C6_OriginalAtOffset ==
    Called =>
        /\ Out.width = source.width + 2 * padding
        /\ Out.height = source.height + 2 * padding
        /\ Len(Out.data) = Out.width * Out.height
        /\ \A i \in 0..(source.width - 1), j \in 0..(source.height - 1) :
              OutAt(padding + i, padding + j) = SrcAt(i, j)

C6_Witness ==
    /\ Called
    /\ padding >= 1
    /\ source.width >= 2
    /\ source.height >= 2
    /\ Out # Canvas(Out.width, Out.height)

Border ==
    { c \in (0..(Out.width - 1)) \X (0..(Out.height - 1)) :
        ~ /\ c[1] \in padding..(padding + source.width - 1)
          /\ c[2] \in padding..(padding + source.height - 1) }

\* Some paint covered the pixel, and it holds the value of a source pixel.
Painted(c) ==
    /\ \E k \in 1..Len(First.trace) : (c[1] + c[2] * Out.width) \in First.trace[k].covered
    /\ \E i \in 0..(source.width - 1), j \in 0..(source.height - 1) :
          OutAt(c[1], c[2]) = SrcAt(i, j)

\* C8 as claimed: for every padding, larger than the source's width or
\* height included, every border pixel is painted with a source pixel.
C8_BorderPainted ==
    Called => \A c \in Border : Painted(c)

\* C8 amended: for every padding up to the source's width and height, every
\* border pixel is painted with a source pixel.
C8_BorderPaintedUpToSize ==
    (Called /\ padding <= source.width /\ padding <= source.height)
        => \A c \in Border : Painted(c)

C8_Witness ==
    /\ Called
    /\ padding >= 2
    /\ padding = source.width
    /\ padding < source.height

\* The rectangle of size w x h with top left corner (x0, y0), clipped to the
\* output, as entries of its data.
Region(x0, y0) ==
    { i \in 0..(Len(Out.data) - 1) :
        /\ (i % Out.width) \in x0..(x0 + source.width - 1)
        /\ (i \div Out.width) \in y0..(y0 + source.height - 1) }

\* Where the nine paints land: original, left, right, top, bottom, top left,
\* top right, bottom left, bottom right.
PaintOrigins ==
    LET w == source.width
        h == source.height
        p == padding
    IN  << <<p, p>>, <<p - w, p>>, <<p + w, p>>, <<p, p - h>>, <<p, p + h>>,
           <<p - w, p - h>>, <<p + w, p - h>>, <<p - w, p + h>>, <<p + w, p + h>> >>

\* The paints that covered entry i of the output, by their place in the order.
Covering(i) == {k \in 1..Len(First.trace) : i \in First.trace[k].covered}

Last(S) == CHOOSE k \in S : \A m \in S : m <= k

\* C9: the nine paints are made in the order original, left, right, top,
\* bottom, top left, top right, bottom left, bottom right, and every output
\* pixel holds what the last paint that covers it drew there (a pixel that no
\* paint covers stays transparent).
C9_PaintOrder ==
    Called =>
        /\ Len(First.trace) = 9
        /\ \A k \in 1..9 :
              First.trace[k].covered = Region(PaintOrigins[k][1], PaintOrigins[k][2])
        /\ \A i \in 0..(Len(Out.data) - 1) :
              Out.data[i + 1] =
                  IF Covering(i) = {} THEN TRANSPARENT
                  ELSE First.trace[Last(Covering(i))].drawn[i]

C9_Witness ==
    /\ Called
    /\ padding >= 1
    /\ Len(First.trace) = 9
    /\ \A k \in 1..9 : First.trace[k].covered # {}
    /\ \A i \in 0..(Len(Out.data) - 1) : Covering(i) # {}

-----------------------------------------------------------------------------
(* extendSides: properties *)

InSource(x, y) == x \in 0..(snapshot.width - 1) /\ y \in 0..(snapshot.height - 1)
InControl(x, y) == x \in 0..(control.width - 1) /\ y \in 0..(control.height - 1)

\* The source pixel at (x, y) before the first call and after it.
Before(x, y) == snapshot.data[x + y * snapshot.width + 1]
After(x, y)  == First.image.data[x + y * snapshot.width + 1]

\* The control image's own pixel at (x, y).
ControlAt(x, y) == control.data[x + y * control.width + 1]

Applied == 1..Len(First.trace)

\* The first call left the pixel every applied directive read as it was.
AnchorsKept ==
    \A i \in Applied :
        LET a == First.trace[i].anchor
        IN  a < Len(snapshot.data) => First.image.data[a + 1] = snapshot.data[a + 1]

SameSize == control.width = snapshot.width /\ control.height = snapshot.height

\* C1 as claimed: a second application of the same control image changes
\* nothing (stated here for the control images of the source's size alone).
C1_Idempotent ==
    (Len(returned) = 2 /\ SameSize) => returned[2].image = returned[1].image

\* C1 amended: a second application changes nothing when the first one left
\* every pixel read by an applied directive with its value before the call.
C1_IdempotentWhenAnchorsKept ==
    (Len(returned) = 2 /\ AnchorsKept) => returned[2].image = returned[1].image

C1_Witness ==
    /\ Len(returned) = 2
    /\ AnchorsKept
    /\ Len(First.trace) >= 2
    /\ First.image # snapshot
    /\ \E i, j \in Applied : i # j /\ First.trace[i].writes \cap First.trace[j].writes # {}

\* The pixels (0..x, y) of the source, as entries of its data.
RowUpTo(x, y) == {k + y * snapshot.width : k \in 0..x}

\* No directive other than the i-th wrote a pixel of columns 0..x of its row.
Undisturbed(i) ==
    \A j \in Applied \ {i} :
        First.trace[j].writes \cap RowUpTo(First.trace[i].x, First.trace[i].y) = {}

LeftFilled(x, y) ==
    /\ \A k \in 0..(x - 1) : After(k, y) = Before(x, y)
    /\ After(x, y) = Before(x, y)

\* C2 as claimed: for every control pixel that decodes to "left", whatever
\* else the control image holds, the pixels to its left hold the value the
\* source had at (x, y) before the call, and (x, y) is unchanged (stated
\* here for the control images of the source's size alone).
C2_LeftFill ==
    (Called /\ SameSize) =>
        \A x \in 0..(control.width - 1), y \in 0..(control.height - 1) :
            (InSource(x, y) /\ ControlAt(x, y)[4] # 0 /\ ControlAt(x, y)[1] = 255)
                => LeftFilled(x, y)

\* C2 amended: for every "left" directive the call applied at a coordinate of
\* the source, if no other applied directive wrote a pixel of columns 0..x of
\* that row, the pixels to its left hold the value the source had at (x, y)
\* before the call, and (x, y) is unchanged.
C2_LeftFillUndisturbed ==
    Called =>
        \A i \in Applied :
            LET e == First.trace[i]
            IN  (e.read[1] = 255 /\ InSource(e.x, e.y) /\ Undisturbed(i))
                    => LeftFilled(e.x, e.y)

C2_Witness ==
    /\ Called
    /\ Len(First.trace) >= 2
    /\ \E i \in Applied :
          LET e == First.trace[i]
          IN  e.read[1] = 255 /\ e.x >= 1 /\ InSource(e.x, e.y) /\ Undisturbed(i)

\* The pixels a control value c at (x, y) is to overwrite: first match wins.
ExpectedCoords(c, x, y) ==
    IF c[1] = 255      THEN {<<k, y>> : k \in 0..(x - 1)}
    ELSE IF c[2] = 255 THEN {<<x, k>> : k \in 0..(y - 1)}
    ELSE IF c[3] = 255 THEN {<<k, y>> : k \in (x + 1)..(snapshot.width - 1)}
    ELSE                    {<<x, k>> : k \in (y + 1)..(snapshot.height - 1)}

\* C3: every directive applied at a coordinate of the source writes exactly
\* the pixels of the one direction its control value selects by the priority
\* red (left), green (up), blue (right), anything else (down); no coordinate
\* gets two directives; and a call that applies a single directive changes
\* exactly those pixels, to the value read at the anchor.
C3_FirstMatchDirection ==
    Called =>
        /\ \A i \in Applied :
              LET e == First.trace[i]
              IN  (e.read # UNDEFINED /\ InSource(e.x, e.y)) =>
                     e.writes = {c[1] + c[2] * snapshot.width :
                                    c \in ExpectedCoords(e.read, e.x, e.y)}
        /\ \A i, j \in Applied :
              (First.trace[i].x = First.trace[j].x /\ First.trace[i].y = First.trace[j].y)
                  => i = j
        /\ (Len(First.trace) = 1 /\ InSource(First.trace[1].x, First.trace[1].y)) =>
              \A x \in 0..(snapshot.width - 1), y \in 0..(snapshot.height - 1) :
                  After(x, y) =
                      IF <<x, y>> \in ExpectedCoords(First.trace[1].read,
                                                     First.trace[1].x, First.trace[1].y)
                      THEN Before(First.trace[1].x, First.trace[1].y)
                      ELSE Before(x, y)

C3_Witness ==
    /\ Called
    /\ \E i \in Applied :
          LET e == First.trace[i]
          IN  e.read = CYAN /\ InSource(e.x, e.y) /\ e.writes # {}
    /\ \E i \in Applied :
          LET e == First.trace[i]
          IN  e.read = YELLOW /\ InSource(e.x, e.y) /\ e.writes # {}

\* C4 as claimed: a directive is applied at (x, y) exactly when (x, y) is a
\* pixel of the control image whose alpha is not 0, and it is decoded from
\* that pixel, for every size of the control image.
C4_DirectiveFromOwnPixel ==
    Called =>
        /\ \A x \in 0..(control.width - 1), y \in 0..(control.height - 1) :
              (ControlAt(x, y)[4] # 0) <=>
                  (\E i \in Applied : First.trace[i].x = x /\ First.trace[i].y = y)
        /\ \A i \in Applied :
              LET e == First.trace[i]
              IN  InControl(e.x, e.y) /\ e.read = ControlAt(e.x, e.y)

\* C5 as claimed: with a control image no larger than the source, every
\* source pixel outside the control image's extent is untouched.
C5_OutsideExtentUntouched ==
    (Called /\ control.width <= snapshot.width /\ control.height <= snapshot.height) =>
        \A x \in 0..(snapshot.width - 1), y \in 0..(snapshot.height - 1) :
            (x >= control.width \/ y >= control.height) => After(x, y) = Before(x, y)

\* C5 amended: every source pixel whose column and row both lie outside the
\* control image's extent is untouched.
C5_OutsideBothUntouched ==
    Called =>
        \A x \in 0..(snapshot.width - 1), y \in 0..(snapshot.height - 1) :
            (x >= control.width /\ y >= control.height) => After(x, y) = Before(x, y)

C5_Witness ==
    /\ Called
    /\ control.width < snapshot.width
    /\ control.height < snapshot.height
    /\ \E x \in 0..(snapshot.width - 1), y \in 0..(snapshot.height - 1) :
          (x >= control.width \/ y >= control.height) /\ After(x, y) # Before(x, y)

-----------------------------------------------------------------------------
(* extendCorners: properties *)

\* The columns and rows of quadrant k (1 top left, 2 top right, 3 bottom
\* left, 4 bottom right), cut at ceil(w/2) and ceil(h/2) of the source.
QuadrantX(k) ==
    IF k \in {1, 3} THEN 0..(CeilHalf(snapshot.width) - 1)
    ELSE CeilHalf(snapshot.width)..(snapshot.width - 1)
QuadrantY(k) ==
    IF k \in {1, 2} THEN 0..(CeilHalf(snapshot.height) - 1)
    ELSE CeilHalf(snapshot.height)..(snapshot.height - 1)

\* Quadrant k of the control image holds a pixel of exactly this colour.
HasMarker(k, color) ==
    \E x \in QuadrantX(k), y \in QuadrantY(k) :
        InControl(x, y) /\ ControlAt(x, y) = color

LacksCenter == { k \in 1..4 : ~HasMarker(k, CENTER_COLOR) }

\* C10: when some quadrant of the control image holds no pixel equal to
\* CENTER, the call of extendCorners ends the run and returns no buffer,
\* whichever quadrant it is and whatever else that quadrant holds.  It ends
\* by process.exit at the first such quadrant, unless an exception has ended
\* it before that quadrant was examined.
C10_AbortsWithoutCenter ==
    Called /\ LacksCenter # {} =>
        LET first == CHOOSE k \in LacksCenter : \A j \in LacksCenter : k <= j
        IN  /\ status \in {"exited", "threw"}
            /\ First.image = NoImage
            /\ status = "exited" =>
                   /\ Len(First.trace) = first
                   /\ First.trace[first].status = "exited"
            /\ status = "threw" => Len(First.trace) < first

\* A quadrant with an EDGE and a TARGET pixel but no CENTER ended the run
\* after an earlier quadrant had been refilled.
C10_Witness ==
    /\ Called
    /\ status = "exited"
    /\ First.image = NoImage
    /\ Len(First.trace) >= 2
    /\ \E k \in LacksCenter :
          /\ k = Len(First.trace)
          /\ HasMarker(k, EDGE_COLOR)
          /\ HasMarker(k, TARGET_COLOR)

-----------------------------------------------------------------------------
(* refillCorner: properties *)

\* Column and row of entry i (counted from 0) of the control quadrant.
QuadX(i) == i % control.width
QuadY(i) == i \div control.width

\* The entries of the control quadrant that hold exactly this colour.
Marked(color) ==
    { i \in 0..(control.width * control.height - 1) : control.data[i + 1] = color }

\* The angle of entry i as seen from entry c, adjusted for the half.
AngleAbout(c, i) ==
    adjustedAngle(bottom, atan2(QuadY(c) - QuadY(i), QuadX(i) - QuadX(c)))

\* The entry with the largest row and, within that row, the largest column.
LastInScan(S) ==
    CHOOSE i \in S : \A j \in S :
        QuadY(j) < QuadY(i) \/ (QuadY(j) = QuadY(i) /\ QuadX(j) <= QuadX(i))

Samples == First.samples
Fills == First.fills

\* C11: with several CENTER pixels in the quadrant, the centre is the last
\* of them in row-major order, and the angle of every sample and of every
\* TARGET pixel is taken about that centre.
C11_LastCenterUsed ==
    Called /\ Cardinality(Marked(CENTER_COLOR)) >= 2 =>
        LET c == LastInScan(Marked(CENTER_COLOR))
        IN  /\ First.center = <<QuadX(c), QuadY(c)>>
            /\ \A k \in 1..Len(Samples) :
                   Samples[k].angle = AngleAbout(c, Samples[k].at)
            /\ \A k \in 1..Len(Fills) :
                   Fills[k].angle = AngleAbout(c, Fills[k].at)
            /\ Marked(EDGE_COLOR) = { Samples[k].at : k \in 1..Len(Samples) }
            /\ Marked(TARGET_COLOR) = { Fills[k].at : k \in 1..Len(Fills) }

\* Two CENTER pixels, and a sample and a TARGET pixel whose angles about the
\* other CENTER pixel would have been different.
C11_Witness ==
    /\ Called
    /\ status = "returned"
    /\ Cardinality(Marked(CENTER_COLOR)) = 2
    /\ \E o \in Marked(CENTER_COLOR) :
          /\ o # LastInScan(Marked(CENTER_COLOR))
          /\ \E k \in 1..Len(Samples) : Samples[k].angle # AngleAbout(o, Samples[k].at)
          /\ \E k \in 1..Len(Fills) : Fills[k].angle # AngleAbout(o, Fills[k].at)

\* The EDGE and TARGET pixels the call gave an angle: entry and angle.
Angled ==
    { [at |-> Samples[k].at, angle |-> Samples[k].angle] : k \in 1..Len(Samples) }
    \cup { [at |-> Fills[k].at, angle |-> Fills[k].angle] : k \in 1..Len(Fills) }

\* Math.atan2(centerY - y, x - centerX) for entry i, about the centre the
\* call used.
RawAngle(i) == atan2(First.center[2] - QuadY(i), QuadX(i) - First.center[1])

\* C12 as claimed: in a bottom-half quadrant every raw angle >= 0, the raw
\* angle 0 included, becomes raw - 2 pi and every angle is strictly
\* negative; in a top-half quadrant every raw angle < 0 becomes raw + 2 pi
\* and every angle is non-negative.
C12_BottomStrictlyNegative ==
    Called /\ status = "returned" =>
        \A p \in Angled :
            IF bottom
            THEN /\ RawAngle(p.at) >= 0 => p.angle = RawAngle(p.at) - TWO_PI
                 /\ p.angle < 0
            ELSE /\ RawAngle(p.at) < 0 => p.angle = RawAngle(p.at) + TWO_PI
                 /\ p.angle >= 0

\* C12 amended: in a bottom-half quadrant every raw angle > 0 becomes
\* raw - 2 pi, a raw angle <= 0 (0 included) is kept, and every angle is in
\* (-2 pi, 0]; in a top-half quadrant every raw angle < 0 becomes
\* raw + 2 pi, a raw angle >= 0 is kept, and every angle is in [0, 2 pi).
C12_BottomNonPositive ==
    Called /\ status # "exited" =>
        \A p \in Angled :
            IF bottom
            THEN /\ RawAngle(p.at) > 0 => p.angle = RawAngle(p.at) - TWO_PI
                 /\ RawAngle(p.at) <= 0 => p.angle = RawAngle(p.at)
                 /\ p.angle <= 0 /\ p.angle > -TWO_PI
            ELSE /\ RawAngle(p.at) < 0 => p.angle = RawAngle(p.at) + TWO_PI
                 /\ RawAngle(p.at) >= 0 => p.angle = RawAngle(p.at)
                 /\ p.angle >= 0 /\ p.angle < TWO_PI

\* A bottom-half quadrant with a pixel on the centre's row to the right of
\* the centre (raw angle 0, kept) and a pixel above that row (wrapped).
C12_Witness ==
    /\ Called
    /\ status = "returned"
    /\ bottom
    /\ \E p \in Angled : RawAngle(p.at) = 0 /\ p.angle = 0
    /\ \E p \in Angled : RawAngle(p.at) > 0 /\ p.angle < 0

\* The pixel of the returned ImageData at entry i, and the source pixel
\* there before the call.
ResultAt(i) == First.image.data[i + 1]
SourceAt(i) == snapshot.data[i + 1]

SampleAngles == { Samples[k].angle : k \in 1..Len(Samples) }

\* C13: the samples are in non-decreasing order of angle; for every TARGET
\* pixel the lower sample has the greatest sample angle <= the target's
\* angle and the upper sample the least sample angle >= it; a target below
\* every sample gets the smallest-angle sample twice, one above every
\* sample the largest-angle sample twice, and in both cases the colour of
\* that sample's source pixel.
C13_NearestSamplesClamped ==
    Called /\ status = "returned" =>
        /\ \A j, k \in 1..Len(Samples) : j <= k => Samples[j].angle <= Samples[k].angle
        /\ \A k \in 1..Len(Samples) : Samples[k].color = SourceAt(Samples[k].at)
        /\ \A n \in 1..Len(Fills) :
              LET f == Fills[n]
                  below == { a \in SampleAngles : a <= f.angle }
                  above == { a \in SampleAngles : a >= f.angle }
              IN  /\ f.before \in 1..Len(Samples) /\ f.after \in 1..Len(Samples)
                  /\ below # {} =>
                        \A a \in below : a <= Samples[f.before].angle /\ Samples[f.before].angle <= f.angle
                  /\ above # {} =>
                        \A a \in above : Samples[f.after].angle <= a /\ f.angle <= Samples[f.after].angle
                  /\ below = {} =>
                        /\ f.before = f.after
                        /\ \A a \in SampleAngles : Samples[f.before].angle <= a
                        /\ ResultAt(f.at) = SourceAt(Samples[f.before].at)
                  /\ above = {} =>
                        /\ f.before = f.after
                        /\ \A a \in SampleAngles : a <= Samples[f.after].angle
                        /\ ResultAt(f.at) = SourceAt(Samples[f.after].at)

\* A TARGET pixel below two samples of different angles took the colour of
\* the smaller one, which is not the colour of the other.
C13_Witness ==
    /\ Called
    /\ status = "returned"
    /\ Cardinality(SampleAngles) >= 2
    /\ \E n \in 1..Len(Fills) :
          /\ \A a \in SampleAngles : Fills[n].angle < a
          /\ ResultAt(Fills[n].at) = Samples[1].color
          /\ ResultAt(Fills[n].at) # Samples[Len(Samples)].color

\* C14: for every TARGET pixel either the two selected samples are the same
\* entry, and the pixel takes that sample's colour exactly, or they have
\* different angles, so that the distance lerpSamples divides by is not 0.
C14_NoZeroDistance ==
    Called /\ status = "returned" =>
        \A n \in 1..Len(Fills) :
            \/ /\ Fills[n].before = Fills[n].after
               /\ ResultAt(Fills[n].at) = Samples[Fills[n].before].color
            \/ Samples[Fills[n].before].angle # Samples[Fills[n].after].angle

\* Channel value v lies between the channel values a and b.
Between(v, a, b) == (a <= v /\ v <= b) \/ (b <= v /\ v <= a)

\* The TARGET pixels whose two selected samples are different entries.
Interpolated == { n \in 1..Len(Fills) : Fills[n].before # Fills[n].after }

\* Channel c written for round n is the weighted sum, rounded to the nearest
\* integer: wLower * lower + wUpper * upper with wLower = (upper.angle -
\* angle) / (upper.angle - lower.angle) and wUpper = 1 - wLower, both
\* weights in [0, 1].
WeightedSum(n, c) ==
    LET lower == Samples[Fills[n].before]
        upper == Samples[Fills[n].after]
        d     == upper.angle - lower.angle
        num   == (upper.angle - Fills[n].angle) * lower.color[c]
                 + (Fills[n].angle - lower.angle) * upper.color[c]
        v     == ResultAt(Fills[n].at)[c]
    IN  /\ d > 0
        /\ lower.angle <= Fills[n].angle /\ Fills[n].angle <= upper.angle
        /\ 2 * (v * d - num) <= d
        /\ 2 * (num - v * d) <= d

\* C15: when the two selected samples differ, every channel written is the
\* weighted sum of the two samples' channels with weights in [0, 1], and so
\* lies between the two samples' channel values.
C15_LerpBetween ==
    Called /\ status = "returned" =>
        \A n \in Interpolated : \A c \in 1..4 :
            /\ WeightedSum(n, c)
            /\ Between(ResultAt(Fills[n].at)[c],
                       Samples[Fills[n].before].color[c],
                       Samples[Fills[n].after].color[c])

\* The same for the TARGET pixels whose two selected samples have different
\* angles: there the weighted sum is what the code stores.
LerpWhenAnglesDiffer ==
    Called /\ status = "returned" =>
        \A n \in Interpolated :
            Samples[Fills[n].before].angle # Samples[Fills[n].after].angle =>
                \A c \in 1..4 :
                    /\ WeightedSum(n, c)
                    /\ Between(ResultAt(Fills[n].at)[c],
                               Samples[Fills[n].before].color[c],
                               Samples[Fills[n].after].color[c])

\* C16: when two samples have equal colour, every TARGET pixel whose angle
\* lies between the angles of those two samples is written with exactly
\* that colour.
C16_EqualColorsKept ==
    Called /\ status = "returned" =>
        \A j, k \in 1..Len(Samples) :
            j # k /\ Samples[j].color = Samples[k].color =>
                \A n \in 1..Len(Fills) :
                    Between(Fills[n].angle, Samples[j].angle, Samples[k].angle) =>
                        ResultAt(Fills[n].at) = Samples[j].color

\* The same for two equal-coloured samples of different angles that are the
\* very samples selected for the TARGET pixel.
EqualColorsKeptWhenSelected ==
    Called /\ status = "returned" =>
        \A n \in Interpolated :
            /\ Samples[Fills[n].before].color = Samples[Fills[n].after].color
            /\ Samples[Fills[n].before].angle # Samples[Fills[n].after].angle
            => ResultAt(Fills[n].at) = Samples[Fills[n].before].color

\* The scenario of C17: a 4 x 4 quadrant, one CENTER pixel, at (2, 2), one
\* EDGE pixel at 0 degrees (right of the centre) over a source pixel
\* (255,0,0,255), one EDGE pixel at 180 degrees (left of the centre) over a
\* source pixel (0,0,255,255), and one TARGET pixel, t, on the 90 degree ray
\* (above the centre).
Scenario(t) ==
    /\ control.width = 4 /\ control.height = 4
    /\ Marked(CENTER_COLOR) = {10}
    /\ \E e \in {8, 9} :
          /\ Marked(EDGE_COLOR) = {11, e}
          /\ SourceAt(e) = BLUE
    /\ SourceAt(11) = RED
    /\ t \in {2, 6}
    /\ Marked(TARGET_COLOR) = {t}

Mean == { <<r, 0, b, 255>> : r \in {127, 128}, b \in {127, 128} }

\* C17 as claimed: in the scenario the TARGET pixel is written
\* (127 or 128, 0, 127 or 128, 255), for either value of the flag.
C17_MeanEitherHalf ==
    \A t \in {2, 6} :
        Called /\ Scenario(t) => status = "returned" /\ ResultAt(t) \in Mean

\* C17 amended: with the flag false the TARGET pixel is written
\* (127 or 128, 0, 127 or 128, 255); with the flag true its angle, -3/2 pi,
\* is below both samples and it is written the colour of the sample at
\* 180 degrees, (0,0,255,255).
C17_MeanInTopHalf ==
    \A t \in {2, 6} :
        Called /\ Scenario(t) =>
            /\ status = "returned"
            /\ ~bottom => ResultAt(t) \in Mean
            /\ bottom => ResultAt(t) = BLUE

\* The scenario, with the flag false: the TARGET pixel got the mean.
C17_Witness ==
    \E t \in {2, 6} :
        /\ Called
        /\ Scenario(t)
        /\ ~bottom
        /\ ResultAt(t) = <<128, 0, 128, 255>>
        /\ Fills[1].before # Fills[1].after

-----------------------------------------------------------------------------
(* extendCorners: what it changes, and where *)

\* The control pixel at (x, y) is exactly TARGET.
IsTarget(x, y) == InControl(x, y) /\ ControlAt(x, y) = TARGET_COLOR

\* C18: the returned buffer has the size of the source, and every pixel of
\* it whose control pixel is not exactly TARGET (transparent, unmarked,
\* CENTER, EDGE, or outside the control image) equals the source pixel at
\* the same coordinate.
C18_OnlyTargetsChange ==
    Called /\ status = "returned" =>
        /\ First.image.width = snapshot.width
        /\ First.image.height = snapshot.height
        /\ Len(First.image.data) = Len(snapshot.data)
        /\ \A x \in 0..(snapshot.width - 1), y \in 0..(snapshot.height - 1) :
              ~IsTarget(x, y) => After(x, y) = Before(x, y)

\* A returned buffer in which the TARGET pixel differs from the source, in
\* a quadrant other than the top left one.
C18_Witness ==
    /\ Called
    /\ status = "returned"
    /\ \E x \in 0..(snapshot.width - 1), y \in 0..(snapshot.height - 1) :
          /\ IsTarget(x, y)
          /\ After(x, y) # Before(x, y)
          /\ x >= CeilHalf(snapshot.width) \/ y >= CeilHalf(snapshot.height)
    /\ \E x \in 0..(snapshot.width - 1), y \in 0..(snapshot.height - 1) :
          InControl(x, y) /\ ControlAt(x, y) = EDGE_COLOR /\ After(x, y) = Before(x, y)

\* The first column and the first row of quadrant k.
OffsetX(k) == IF k \in {1, 3} THEN 0 ELSE CeilHalf(snapshot.width)
OffsetY(k) == IF k \in {1, 2} THEN 0 ELSE CeilHalf(snapshot.height)

\* The entry, within quadrant k, of the pixel (x, y) of the image.
EntryIn(k, x, y) == (x - OffsetX(k)) + (y - OffsetY(k)) * Cardinality(QuadrantX(k))

\* The entries, within quadrant k, of the control pixels of this colour
\* that lie in the columns and rows of the quadrant.
MarkedIn(k, color) ==
    { EntryIn(k, p[1], p[2]) :
        p \in { q \in QuadrantX(k) \X QuadrantY(k) :
                  InControl(q[1], q[2]) /\ ControlAt(q[1], q[2]) = color } }

\* C19: the four quadrants, cut at ceil(w/2) and ceil(h/2) of the source,
\* hold every source pixel exactly once; the call handles them in the order
\* top left, top right, bottom left, bottom right, each with the control
\* pixels of the same columns and rows, and the returned buffer holds each
\* quadrant's result at the quadrant's own offset.
C19_QuadrantsPartition ==
    /\ \A x \in 0..(snapshot.width - 1), y \in 0..(snapshot.height - 1) :
          Cardinality({ k \in 1..4 : x \in QuadrantX(k) /\ y \in QuadrantY(k) }) = 1
    /\ Called =>
          \A k \in 1..Len(First.trace) :
              /\ First.trace[k].status # "exited" =>
                    /\ { First.trace[k].samples[n].at : n \in 1..Len(First.trace[k].samples) }
                          = MarkedIn(k, EDGE_COLOR)
                    /\ { First.trace[k].fills[n].at : n \in 1..Len(First.trace[k].fills) }
                          = MarkedIn(k, TARGET_COLOR)
                    /\ MarkedIn(k, CENTER_COLOR) # {}
                    /\ \A e \in MarkedIn(k, CENTER_COLOR) :
                          e <= First.trace[k].center[1]
                                 + First.trace[k].center[2] * Cardinality(QuadrantX(k))
                    /\ First.trace[k].center[1] \in 0..(Cardinality(QuadrantX(k)) - 1)
              /\ First.trace[k].status = "exited" => MarkedIn(k, CENTER_COLOR) = {}
              /\ status = "returned" =>
                    /\ First.trace[k].image.width = Cardinality(QuadrantX(k))
                    /\ First.trace[k].image.height = Cardinality(QuadrantY(k))
                    /\ \A x \in QuadrantX(k), y \in QuadrantY(k) :
                          After(x, y) = First.trace[k].image.data[EntryIn(k, x, y) + 1]
    /\ Called /\ status = "returned" => Len(First.trace) = 4

\* A returned buffer for a source of odd width whose control image is
\* larger than the source, with a changed TARGET pixel in a quadrant other
\* than the top left one.
C19_Witness ==
    /\ Called
    /\ status = "returned"
    /\ snapshot.width % 2 = 1
    /\ control.width > snapshot.width
    /\ \E k \in {2, 3, 4} :
          /\ Len(First.trace[k].fills) >= 1
          /\ \E x \in QuadrantX(k), y \in QuadrantY(k) :
                /\ EntryIn(k, x, y) = First.trace[k].fills[1].at
                /\ After(x, y) # Before(x, y)
                /\ After(x, y) = First.trace[k].fills[1].color

-----------------------------------------------------------------------------
(* getRenames: source indexes and names *)

\* The entries of page p in extraction order: the front, then the back.
PageEntries(p) ==
    LET order == renameConfig.extractionOrder[p]
    IN  [k \in 1..Len(order.front) |-> [ref |-> order.front[k], side |-> Front, page |-> p]]
        \o (IF order.back = NoBack THEN <<>>
            ELSE [k \in 1..Len(order.back) |-> [ref |-> order.back[k], side |-> Back, page |-> p]])

RECURSIVE EntriesUpTo(_)
EntriesUpTo(p) == IF p = 0 THEN <<>> ELSE EntriesUpTo(p - 1) \o PageEntries(p)

\* The extraction order over all pages.
AllEntries == EntriesUpTo(Len(renameConfig.extractionOrder))

\* The positions, counted from 1, of the entries that are not '-'.
KeptOf(entries) == { n \in 1..Len(entries) : entries[n].ref # "-" }

Kept == KeptOf(AllEntries)

IsNumber(ref) == ref \in {"0", "1", "2", "3", "4", "5", "6", "7", "8", "9"}

\* The largest slot number written on page p, 0 if it has none.
LargestOn(entries, p) ==
    LET slots == { parseInt(entries[n].ref) :
                     n \in { m \in 1..Len(entries) :
                               entries[m].page = p /\ IsNumber(entries[m].ref) } }
    IN  IF slots = {} THEN 0 ELSE CHOOSE s \in slots : \A t \in slots : t <= s

RECURSIVE SlotsBefore(_, _)
SlotsBefore(entries, p) ==
    IF p <= 1 THEN 0 ELSE SlotsBefore(entries, p - 1) + LargestOn(entries, p - 1)

\* The name of the slot an entry refers to: the side's letter and the slot
\* number, shifted by the slots of the pages before, or the reference
\* itself for a letter (and for a number when numbers are not shifted).
SlotName(entries, entry) ==
    renameConfig.fullName.outPrefix \o <<"-">> \o
        (IF renameConfig.fullName.shiftNumbers /\ IsNumber(entry.ref)
         THEN <<IF entry.side = Front THEN "F" ELSE "B", "-">>
              \o padNum(SlotsBefore(entries, entry.page) + parseInt(entry.ref))
         ELSE <<entry.ref>>)

Rename(from, side, digit) ==
    [fromIndex |-> from, toName |-> OUT_PREFIX \o <<"-", side, "-", "0", "0", digit>>]

\* The renames README.md lists for '142536' / '251436' with startIndex 2.
ReadmeRenames ==
    << Rename(2, "F", "1"), Rename(3, "F", "4"), Rename(4, "F", "2"),
       Rename(5, "F", "5"), Rename(6, "F", "3"), Rename(7, "F", "6"),
       Rename(8, "B", "2"), Rename(9, "B", "5"), Rename(10, "B", "1"),
       Rename(11, "B", "4"), Rename(12, "B", "3"), Rename(13, "B", "6") >>

\* The renames are those of the entries kept, in order.
RenamesFollow(renames, entries, kept) ==
    /\ Len(renames) = Cardinality(kept)
    /\ \A n \in kept :
          /\ renames[Cardinality({ m \in kept : m <= n })].fromIndex
                = renameConfig.startIndex + (n - 1)
          /\ renames[Cardinality({ m \in kept : m <= n })].toName
                = SlotName(entries, entries[n])

\* C20: the n-th entry of the extraction order (n from 0, fronts before
\* backs on each page) has source index startIndex + n; the renames are, in
\* order, one per entry that is not '-', each from its entry's source index
\* to the name of the slot the entry refers to; the configuration of
\* README.md yields the renames README.md lists.
C20_ConsecutiveIndexes ==
    Called =>
        /\ RenamesFollow(First, AllEntries, Kept)
        /\ renameConfig = AwesomeGame => First = ReadmeRenames

\* Two pages: a '-' and a slot number on the first, and on the back of the
\* second a slot number whose rename comes after the skipped index.
C20_Witness ==
    /\ Called
    /\ Len(renameConfig.extractionOrder) = 2
    /\ renameConfig.fullName.shiftNumbers
    /\ \E n \in 1..Len(AllEntries), m \in Kept :
          /\ AllEntries[n].ref = "-"
          /\ AllEntries[n].page = 1
          /\ AllEntries[m].page = 2
          /\ AllEntries[m].side = Back
          /\ IsNumber(AllEntries[m].ref)
          /\ SlotsBefore(AllEntries, 2) > 0
          /\ \E j \in 1..Len(First) :
                /\ First[j].fromIndex = renameConfig.startIndex + (m - 1)
                /\ First[j].toName = SlotName(AllEntries, AllEntries[m])
                /\ j < m

-----------------------------------------------------------------------------
(* getRenames: numbers shifted per page *)

\* The rename made for the entry at position n of the extraction order.
RenameOf(renames, kept, n) == renames[Cardinality({ m \in kept : m <= n })]

\* The positions of the entries that are slot numbers.
Numbered(entries) == { n \in 1..Len(entries) : IsNumber(entries[n].ref) }

\* Page k's slot n is named by the number offset_k + n.
ShiftedPerPage(renames, entries, kept) ==
    \A n \in Numbered(entries) :
        RenameOf(renames, kept, n).toName
            = renameConfig.fullName.outPrefix
              \o <<"-", IF entries[n].side = Front THEN "F" ELSE "B", "-">>
              \o padNum(SlotsBefore(entries, entries[n].page) + parseInt(entries[n].ref))

\* The renames of the numeric slots of one side differ pairwise in toName
\* and in fromIndex.
NoCollision(renames, entries, kept) ==
    \A n, m \in Numbered(entries) :
        (n # m /\ entries[n].side = entries[m].side) =>
            /\ RenameOf(renames, kept, n).toName # RenameOf(renames, kept, m).toName
            /\ RenameOf(renames, kept, n).fromIndex # RenameOf(renames, kept, m).fromIndex

\* The fromIndex values of the numeric slots differ pairwise.
IndexesDiffer(renames, entries, kept) ==
    \A n, m \in Numbered(entries) :
        n # m => RenameOf(renames, kept, n).fromIndex # RenameOf(renames, kept, m).fromIndex

\* Every slot number is at least 1, and no side of a page lists a slot
\* number twice.
ListedOnce(entries) ==
    \A n, m \in Numbered(entries) :
        /\ parseInt(entries[n].ref) >= 1
        /\ (n # m /\ entries[n].page = entries[m].page /\ entries[n].side = entries[m].side)
              => entries[n].ref # entries[m].ref

MultiPageShifted ==
    /\ Called
    /\ Len(renameConfig.extractionOrder) >= 2
    /\ renameConfig.fullName.shiftNumbers

\* C23 as stated: in a multi-page configuration with number shifting, page
\* k's slot n gets the number offset_k + n, and the renames of the numeric
\* slots of one side have pairwise distinct toName and fromIndex values.
C23_ShiftedNamesDistinct ==
    MultiPageShifted =>
        /\ ShiftedPerPage(First, AllEntries, Kept)
        /\ NoCollision(First, AllEntries, Kept)

\* C23, amended: page k's slot n gets the number offset_k + n and the
\* fromIndex values are pairwise distinct; the toName values of the numeric
\* slots of one side are pairwise distinct when every slot number is at
\* least 1 and no side of a page lists a slot number twice.
C23_ShiftedNamesDistinctIfListedOnce ==
    MultiPageShifted =>
        /\ ShiftedPerPage(First, AllEntries, Kept)
        /\ IndexesDiffer(First, AllEntries, Kept)
        /\ ListedOnce(AllEntries) => NoCollision(First, AllEntries, Kept)

\* Two pages that both list slots 1 and 2 on the front, each once: four
\* renames of the front side.
C23_Witness ==
    /\ MultiPageShifted
    /\ ListedOnce(AllEntries)
    /\ \E n, m \in Numbered(AllEntries) :
          /\ AllEntries[n].page = 1
          /\ AllEntries[m].page = 2
          /\ AllEntries[n].side = Front
          /\ AllEntries[m].side = Front
          /\ AllEntries[n].ref = "2"
          /\ AllEntries[m].ref = "1"
          /\ RenameOf(First, Kept, m).toName = OUT_PREFIX \o <<"-", "F", "-", "0", "0", "3">>

-----------------------------------------------------------------------------
(* The transforms: in place or into a new buffer *)

-----------------------------------------------------------------------------
(* extendSides: where it reads and writes *)

\* The coordinates the i-th applied directive passed to setPixel.
WriteCoords(i) ==
    FillCoords(First.trace[i].dir, First.trace[i].x, First.trace[i].y,
               snapshot.width, snapshot.height)

\* C26: every read of the control image addresses the entry of a pixel of
\* the control image, and every read and write of the source addresses a
\* coordinate inside the source, so that a write for row y changes an entry
\* of row y, for every size of source and control.
C26_AccessesInside ==
    Called =>
        /\ \A x \in 0..(control.width - 1), y \in 0..(control.height - 1) :
              x + y * snapshot.width < Len(control.data)
        /\ \A i \in Applied :
              /\ InSource(First.trace[i].x, First.trace[i].y)
              /\ \A c \in WriteCoords(i) : InSource(c[1], c[2])
              /\ \A k \in First.trace[i].writes :
                    \E c \in WriteCoords(i) : k \div snapshot.width = c[2]

-----------------------------------------------------------------------------
(* refillCorner: a quadrant without samples *)

\* C27: for a control quadrant with a CENTER pixel, at least one TARGET pixel
\* and no EDGE pixel the call of refillCorner returns a buffer.
C27_ReturnsWithoutSamples ==
    (/\ Called
     /\ Marked(CENTER_COLOR) # {}
     /\ Marked(TARGET_COLOR) # {}
     /\ Marked(EDGE_COLOR) = {}) => status = "returned"

-----------------------------------------------------------------------------
(* addBleed: the nine regions *)

\* The order 1..9 with the places j and k exchanged.
Exchanged(j, k) == [i \in 1..9 |-> IF i = j THEN k ELSE IF i = k THEN j ELSE i]

Reversed == [i \in 1..9 |-> 10 - i]

\* The canvas after the nine paints of addBleed applied in this order.
PaintedIn(order, paints) ==
    PaintAll([image |-> Canvas(Out.width, Out.height), trace |-> <<>>],
             source, [i \in 1..9 |-> paints[order[i]]], 1).image

SameInEveryOrder(paints) ==
    /\ PaintedIn(Reversed, paints) = Out
    /\ \A j, k \in 1..9 : j < k => PaintedIn(Exchanged(j, k), paints) = Out

\* C28: no two of the nine paints cover the same output pixel, and the
\* output is the one addBleed returns when the nine paints are applied in
\* reverse order or with any two of them exchanged.
C28_RegionsDisjoint ==
    Called =>
        /\ Len(First.trace) = 9
        /\ \A j, k \in 1..9 :
              j # k => First.trace[j].covered \cap First.trace[k].covered = {}
        /\ SameInEveryOrder(Paints(source.width, source.height, padding))

\* A source at least two pixels wide and a padding of another size: all
\* nine paints reach the canvas, clipped or not, and its first pixel is
\* painted.
C28_Witness ==
    /\ Called
    /\ source.width >= 2
    /\ padding # source.width
    /\ padding >= 1
    /\ \A k \in 1..9 : First.trace[k].covered # {}
    /\ Out.data[1] # TRANSPARENT

-----------------------------------------------------------------------------
(* config: what verifyConfig demands *)

\* The references a side of a layout page or of an extraction page holds.
LayoutRefs(p, side) ==
    { IF side = Front THEN renameConfig.layout[p][i].front
      ELSE renameConfig.layout[p][i].back : i \in 1..Len(renameConfig.layout[p]) }

OrderRefs(p, side) ==
    LET order == renameConfig.extractionOrder[p]
        list  == IF side = Front THEN order.front
                 ELSE IF order.back = NoBack THEN <<>> ELSE order.back
    IN  { list[i] : i \in 1..Len(list) }

SlotNumbers(refs) == { r \in refs : IsNumber(r) }
SlotLetters(refs) == { r \in refs : IsLetter(r) }

\* The letters of the layout on the pages before page p and, for the back,
\* on the front of page p.
SeenBefore(p, side) ==
    UNION { SlotLetters(LayoutRefs(q, Front)) \cup SlotLetters(LayoutRefs(q, Back)) :
              q \in 1..(p - 1) }
    \cup (IF side = Back THEN SlotLetters(LayoutRefs(p, Front)) ELSE {})

\* What the claim demands of a configuration.
Matching_Pages ==
    /\ Len(renameConfig.layout) = Len(renameConfig.extractionOrder)
    /\ \A p \in 1..Len(renameConfig.layout), side \in {Front, Back} :
          /\ SlotNumbers(LayoutRefs(p, side)) = SlotNumbers(OrderRefs(p, side))
          /\ SlotLetters(OrderRefs(p, side))
                = SlotLetters(LayoutRefs(p, side)) \ SeenBefore(p, side)

\* C21: config fails with an AssertionError unless layout and extraction
\* order have the same number of pages and, on every page and side, the same
\* numbers, and the extraction order holds exactly the letters of the layout
\* not seen on an earlier page or on the front of the same page; so where
\* config returns, no letter of the extraction order was in the layout
\* before.
C21_FailsUnlessMatching ==
    Called =>
        /\ ~Matching_Pages => (status = "threw" /\ First.error = "AssertionError")
        /\ status = "returned" =>
              \A p \in 1..Len(renameConfig.extractionOrder), side \in {Front, Back} :
                  SlotLetters(OrderRefs(p, side)) \cap SeenBefore(p, side) = {}

\* Two pages that both show the letter B on the back, and an extraction
\* order that lists B on both: the second listing makes config fail, the
\* numbers and the first page being in order.
C21_Witness ==
    /\ Called
    /\ status = "threw"
    /\ First.error = "AssertionError"
    /\ First.failed = <<"letters back", 2>>
    /\ Len(renameConfig.layout) = 2
    /\ "B" \in SlotLetters(LayoutRefs(1, Back)) \cap SlotLetters(LayoutRefs(2, Back))
    /\ "B" \in SlotLetters(OrderRefs(1, Back)) \cap SlotLetters(OrderRefs(2, Back))

-----------------------------------------------------------------------------
(* Files: nothing that exists is overwritten *)

\* The k-th call repeats an earlier one that ran to its end: the same
\* function with the same paths.
Repeats(k) ==
    \E j \in 1..(k - 1) :
        /\ ~returned[j].threw
        /\ returned[j].op = returned[k].op
        /\ returned[j].from = returned[k].from
        /\ returned[j].to = returned[k].to

\* C22: no call of copyNewerSync, preprocessNoop or the processor of
\* preprocessCombat changes what an existing file holds, and a call that
\* repeats an earlier one changes no file at all.
C22_ExistingFilesKept ==
    \A k \in 1..Len(returned) :
        /\ \A p \in Paths :
              returned[k].before[p] # ABSENT => returned[k].after[p] = returned[k].before[p]
        /\ Repeats(k) => returned[k].after = returned[k].before

\* The processor wrote the output file; run for the other renamed file of
\* the same output path, which holds another picture, it wrote nothing; and
\* so did the first call when repeated.
C22_Witness ==
    /\ Len(returned) = 3
    /\ returned[1].op = "preprocessCombat"
    /\ returned[1].after # returned[1].before
    /\ returned[2].op = "preprocessCombat"
    /\ returned[2].from # returned[1].from
    /\ files[returned[2].from] \notin {ABSENT, files[returned[1].from]}
    /\ returned[2].after = returned[2].before
    /\ Repeats(3)
    /\ returned[3].from = returned[1].from
    /\ files[OutputPath] = Processed(files[returned[1].from])

-----------------------------------------------------------------------------
(* Regions: arrays of two lines and more *)

\* The region between the h-th and the next horizontal line and the v-th and
\* the next vertical line.
RegionBetween(horizontal, vertical, h, v) ==
    [x |-> vertical[v], y |-> horizontal[h],
     w |-> vertical[v + 1] - vertical[v], h |-> horizontal[h + 1] - horizontal[h]]

\* One region per pair of neighbouring lines, ordered by horizontal pair,
\* then by vertical pair.
OnePerPair(result, horizontal, vertical) ==
    /\ Len(result) = (Len(horizontal) - 1) * (Len(vertical) - 1)
    /\ \A h \in 1..(Len(horizontal) - 1), v \in 1..(Len(vertical) - 1) :
          result[(h - 1) * (Len(vertical) - 1) + v] = RegionBetween(horizontal, vertical, h, v)

\* C24: regionsBetweenSharedLines throws a RangeError exactly when one of
\* the arrays has fewer than 2 items; given arrays of at least 2 items each
\* it returns (|horizontal| - 1) * (|vertical| - 1) regions, one per pair of
\* neighbouring lines, ordered by horizontal pair, then by vertical pair.
C24_AcceptsTwoLines ==
    returned # <<>> =>
        IF Len(args.horizontal) < 2 \/ Len(args.vertical) < 2
        THEN returned[1].threw = "RangeError"
        ELSE /\ returned[1].threw = ""
             /\ OnePerPair(returned[1].result, args.horizontal, args.vertical)

-----------------------------------------------------------------------------
(* Autofill: merging configurations that fill every slot once *)

SlotSet(entry) == { entry.slots[n] : n \in 1..Len(entry.slots) }

\* Slot s occurs in exactly one entry of the list.
InExactlyOne(list, s) == Cardinality({ k \in 1..Len(list) : s \in SlotSet(list[k]) }) = 1

\* Every slot 0..quantity-1 occurs in exactly one front entry and in
\* exactly one back entry.
FilledOnce(data) ==
    \A s \in 0..(data.quantity - 1) : InExactlyOne(data.fronts, s) /\ InExactlyOne(data.backs, s)

\* No entry has a slot outside 0..quantity-1.
SlotsInRange(data) ==
    (SlotsOf(data.fronts) \cup SlotsOf(data.backs)) \subseteq 0..(data.quantity - 1)

\* No entry is called like a key of Object.prototype.
OwnNames(data) ==
    /\ \A k \in 1..Len(data.fronts) : data.fronts[k].name \notin ObjectPrototypeKeys
    /\ \A k \in 1..Len(data.backs) : data.backs[k].name \notin ObjectPrototypeKeys

\* The sum of the quantities of the first i inputs.
RECURSIVE QuantityUpTo(_, _)
QuantityUpTo(configs, i) ==
    IF i = 0 THEN 0 ELSE QuantityUpTo(configs, i - 1) + configs[i].quantity

\* The slots the entries called name have in the list.
SlotsNamed(list, name) ==
    UNION { SlotSet(list[k]) : k \in { j \in 1..Len(list) : list[j].name = name } }

NamesOf(list) == { list[k].name : k \in 1..Len(list) }

\* The slots of every side ("fronts", "backs") of the merged data are those
\* of the inputs, the i-th input's shifted by the quantities before it.
ShiftedSlots(merged, configs, side) ==
    /\ NamesOf(merged[side]) = UNION { NamesOf(configs[i][side]) : i \in 1..Len(configs) }
    /\ \A name \in NamesOf(merged[side]) :
          SlotsNamed(merged[side], name) =
              UNION { { QuantityUpTo(configs, i - 1) + s : s \in SlotsNamed(configs[i][side], name) } :
                      i \in 1..Len(configs) }

UniqueNames(list) == \A j, k \in 1..Len(list) : list[j].name = list[k].name => j = k

\* What the claim says of the merged data.
MergedAsClaimed(merged, configs) ==
    /\ merged.threw = ""
    /\ merged.quantity = QuantityUpTo(configs, Len(configs))
    /\ ShiftedSlots(merged, configs, "fronts")
    /\ ShiftedSlots(merged, configs, "backs")
    /\ UniqueNames(merged.fronts)
    /\ UniqueNames(merged.backs)
    /\ FilledOnce(merged)
    /\ ~validateAutofillData(merged)

====
